---- MODULE Spec2Model ----
(***************************************************************************)
(* A model of the storycodex pipeline: the six stage functions plan_spine, *)
(* plan_scenes, plan_beats, build_context, write_scene, check_continuity   *)
(* running one invocation at a time against a shared artifact tree, plus   *)
(* the pure functions apply_include and merge.                             *)
(***************************************************************************)
EXTENDS Integers, Sequences, FiniteSets, TLC

VARIABLES
    fs,         \* the artifact tree: path -> file content (Absent when no file)
    pc,         \* position of the running invocation, or how the last one ended
    inv,        \* the running (or last) invocation: stage, arguments, environment
    prev,       \* the invocation before it: stage, arguments and how it ended
    ninv,       \* number of invocations started so far
    err,        \* the fatal error the invocation raised, NoErr when none
    callLog,    \* the llm.chat calls the invocation issued, in order, by purpose
    replies,    \* the raw replies the backend gave to those calls, in order
    payload,    \* local: the value the stage will persist as its artifact
    payload2,   \* local: second value to persist (check_continuity's patch)
    backend_used, \* local: the backend identifier resolved for the metadata
    written,    \* paths written by the invocation, in order
    validated,  \* payloads for which the stage's validation returned no errors
    fs0,        \* the artifact tree as it was when the invocation started
    pure        \* inputs and result of the pure function under check

vars == <<fs, pc, inv, prev, ninv, err, callLog, replies, payload, payload2,
          backend_used, written, validated, fs0, pure>>

\* What no step inside a stage function changes.
frame == <<inv, prev, ninv, fs0, pure>>

(***************************************************************************)
(* Bounds.                                                                 *)
(***************************************************************************)
MaxInvocations == 2

SceneIds == {1, 2}

(***************************************************************************)
(* Paths (paths.py and the literal paths in the stage functions).  A path  *)
(* is <<kind, scene_id>>; scene_id 0 for the files that exist once.        *)
(***************************************************************************)
inputs_spec_path == <<"story_spec", 0>>
plot_spine_path == <<"spine", 0>>
plot_spine_meta_path == <<"spine_meta", 0>>
scenes_index_path == <<"scenes_index", 0>>
scenes_meta_path == <<"scenes_meta", 0>>
scene_plan_path(s) == <<"plan", s>>
scene_beats_path(s) == <<"beats", s>>
scene_beats_meta_path(s) == <<"beats_meta", s>>
scene_context_path(s) == <<"context", s>>
scene_context_meta_path(s) == <<"context_meta", s>>
draft_path(s) == <<"draft", s>>
draft_meta_path(s) == <<"draft_meta", s>>
final_path(s) == <<"final", s>>
report_path(s) == <<"report", s>>
patch_path(s) == <<"patch", s>>
continuity_meta_path(s) == <<"continuity_meta", s>>
NoPath == <<"none", 0>>

SceneKinds == {"plan", "beats", "beats_meta", "context", "context_meta", "draft",
               "draft_meta", "final", "report", "patch", "continuity_meta"}

Paths ==
    {inputs_spec_path, plot_spine_path, plot_spine_meta_path, scenes_index_path,
     scenes_meta_path} \cup (SceneKinds \X SceneIds)

\* A file's content: the text it was written from and which part of it.
Absent == [src |-> "absent", part |-> ""]
File(src, part) == [src |-> src, part |-> part]
exists(p) == fs[p] # Absent

NoErr == [kind |-> "none", path |-> NoPath, producer |-> ""]
\* The arguments of a stage function that tell one target from another; a
\* stage leaves those it does not have at 0 or "".
Args(scene, chapter, input, target) ==
    [scene |-> scene, chapter |-> chapter, input |-> input, target |-> target]

NoInv == [stage |-> "none", scene |-> 0, chapter |-> 0, input |-> "",
          target |-> 0, force |-> FALSE, setting |-> "auto", base |-> <<"/", "v", "1">>]
NoPrev == [stage |-> "none", scene |-> 0, chapter |-> 0, input |-> "",
           result |-> "idle"]

Ended == {"idle", "skipped", "ok", "failed", "crashed"}

(***************************************************************************)
(* llm.py                                                                  *)
(***************************************************************************)
\* Python's substring test `keyword in statement`, a string being the
\* sequence of its characters.
contains(statement, keyword) ==
    \E start \in 0 .. Len(statement) :
        /\ start + Len(keyword) <= Len(statement)
        /\ SubSeq(statement, start + 1, start + Len(keyword)) = keyword

\* The path of DEFAULT_OPENAI_BASE.  A base URL is the path of the URL.
DEFAULT_OPENAI_BASE == <<"/", "v", "1">>

\* The environment of one invocation: STORYCODEX_BACKEND and
\* STORYCODEX_BASE_URL.
Envs ==
    {[setting |-> "auto", base |-> DEFAULT_OPENAI_BASE],
     [setting |-> "bogus", base |-> DEFAULT_OPENAI_BASE]}

ProbeOutcomes == {"200", "404", "RequestError"}

\* Fault: every answer to the probe taken for an OpenAI server.
probe_openai_models_any_status(outcome) ==
    IF outcome = "RequestError" THEN FALSE ELSE TRUE

probe_openai_models(outcome) ==
    IF outcome = "RequestError" THEN FALSE ELSE outcome = "200"

\* base_url.rstrip("/")
RECURSIVE rstrip(_)
rstrip(base_url) ==
    IF base_url # <<>> /\ base_url[Len(base_url)] = "/"
    THEN rstrip(SubSeq(base_url, 1, Len(base_url) - 1))
    ELSE base_url

\* backend = "ValueError" when the setting is none of openai, ollama, auto;
\* probed: whether the GET of <normalized>/v1/models was issued.
resolve_backend(base, setting, outcome) ==
    IF setting \notin {"openai", "ollama", "auto"}
    THEN [backend |-> "ValueError", probed |-> FALSE]
    ELSE IF setting = "openai" THEN [backend |-> "openai", probed |-> FALSE]
    ELSE IF setting = "ollama" THEN [backend |-> "ollama", probed |-> FALSE]
    ELSE IF contains(rstrip(base), <<"/", "v", "1">>)
         THEN [backend |-> "openai", probed |-> FALSE]
    ELSE IF probe_openai_models(outcome)
         THEN [backend |-> "openai", probed |-> TRUE]
         ELSE [backend |-> "ollama", probed |-> TRUE]

\* What one call of llm.chat can give for the replies a stage may get:
\* ValueError from resolve_backend before any request is sent, else the
\* request is sent and either fails (RuntimeError: transport, timeout, HTTP
\* status, unexpected body) or returns a reply text.
chat(texts) ==
    IF \A o \in ProbeOutcomes :
           resolve_backend(inv.base, inv.setting, o).backend = "ValueError"
    THEN {"ValueError"}
    ELSE texts \cup {"RuntimeError"}

Raised(r) == r \in {"ValueError", "RuntimeError"}

(***************************************************************************)
(* Reply texts of the JSON stages.  json.loads and the schema validator    *)
(* are external: a text either is no JSON, or is JSON with schema          *)
(* violations, or is JSON the schema accepts.                              *)
(***************************************************************************)
JsonReplies == {"garbage", "bad", "good"}

json_loads(text) == IF text = "garbage" THEN "JSONDecodeError" ELSE text

iter_errors(data) == IF data = "good" THEN <<>> ELSE <<"schema violation">>

(***************************************************************************)
(* Steps shared by the stage functions.                                    *)
(***************************************************************************)
\* A stage function is entered: the previous invocation becomes prev.
Enter(stage, args, force, env) ==
    /\ pc \in Ended
    /\ ninv < MaxInvocations
    /\ ninv' = ninv + 1
    /\ prev' = [stage |-> inv.stage, scene |-> inv.scene, chapter |-> inv.chapter,
                input |-> inv.input, result |-> pc]
    /\ inv' = [stage |-> stage, scene |-> args.scene, chapter |-> args.chapter,
               input |-> args.input, target |-> args.target, force |-> force,
               setting |-> env.setting, base |-> env.base]
    /\ callLog' = <<>>
    /\ replies' = <<>>
    /\ written' = <<>>
    /\ payload2' = "None"
    /\ fs0' = fs
    /\ UNCHANGED <<fs, pure>>

\* Nothing validated yet, nothing resolved yet.
Fresh == payload' = "None" /\ validated' = {} /\ backend_used' = ""

\* return None at the cache check.
Skip == pc' = "skipped" /\ err' = NoErr

\* raise: the exception leaves the stage function.
Raise(kind, path, producer) ==
    /\ pc' = "failed"
    /\ err' = [kind |-> kind, path |-> path, producer |-> producer]

\* One llm.chat call for the purpose kind that got the outcome r.
Called(kind, r) ==
    IF r = "ValueError"
    THEN UNCHANGED <<callLog, replies>>
    ELSE /\ callLog' = Append(callLog, kind)
         /\ replies' = Append(replies, r)

\* Fault: a failed request is issued again instead of ending the stage.
ChatError_retried(r) ==
    IF r = "ValueError"
    THEN Raise("config", NoPath, "")
    ELSE pc' = pc /\ UNCHANGED err

ChatError(r) ==
    IF r = "ValueError"
    THEN Raise("config", NoPath, "")
    ELSE Raise("transport", NoPath, "")

\* path.write_text(content)
write_text(path, content) ==
    /\ fs' = [fs EXCEPT ![path] = content]
    /\ written' = Append(written, path)

Meta(backend) == File("meta", backend)

\* A validated value goes on to be persisted.
Accept(value, part, next) ==
    /\ pc' = next
    /\ payload' = value
    /\ validated' = validated \cup {File(value, part)}
    /\ UNCHANGED err

(***************************************************************************)
(* plan_spine.py                                                           *)
(***************************************************************************)
spine_parse_and_validate(content) ==
    LET data == json_loads(content)
    IN  IF data = "JSONDecodeError" THEN "None"
        ELSE IF iter_errors(data) # <<>> THEN "None"
        ELSE data

\* Fault: plan_spine without the cache check of lines 27-29.
plan_spine_begin_nocache ==
    \E force \in BOOLEAN, env \in Envs :
        /\ Enter("plan_spine", Args(0, 0, "", 0), force, env)
        /\ Fresh
        /\ IF ~exists(inputs_spec_path)
           THEN Raise("missing", inputs_spec_path, "")
           ELSE pc' = "spine_draft" /\ err' = NoErr

\* plan_spine lines 27-47: cache check, required story spec, prompt.
plan_spine_begin ==
    \E force \in BOOLEAN, env \in Envs :
        /\ Enter("plan_spine", Args(0, 0, "", 0), force, env)
        /\ Fresh
        /\ IF exists(plot_spine_path) /\ ~force
           THEN Skip
           ELSE IF ~exists(inputs_spec_path)
           THEN Raise("missing", inputs_spec_path, "")
           ELSE pc' = "spine_draft" /\ err' = NoErr

\* plan_spine lines 48-51: the draft call and its validation.
plan_spine_draft ==
    /\ pc = "spine_draft"
    /\ \E content \in chat(JsonReplies) :
        /\ Called("draft", content)
        /\ IF Raised(content)
           THEN ChatError(content) /\ UNCHANGED <<payload, validated>>
           ELSE LET spine == spine_parse_and_validate(content)
                IN  IF spine = "None"
                    THEN /\ pc' = "spine_repair"
                         /\ UNCHANGED <<payload, validated, err>>
                    ELSE Accept(spine, "spine", "spine_write")
    /\ UNCHANGED <<frame, fs, payload2, backend_used, written>>

\* Fault: plan_spine asking for another repair when the repaired reply fails.
plan_spine_repair_again ==
    /\ pc = "spine_repair"
    /\ \E repaired \in chat(JsonReplies) :
        /\ Called("repair", repaired)
        /\ IF Raised(repaired)
           THEN ChatError(repaired) /\ UNCHANGED <<payload, validated>>
           ELSE LET spine == spine_parse_and_validate(repaired)
                IN  IF spine = "None"
                    THEN /\ pc' = "spine_repair"
                         /\ UNCHANGED <<payload, validated, err>>
                    ELSE Accept(spine, "spine", "spine_write")
    /\ UNCHANGED <<frame, fs, payload2, backend_used, written>>

\* plan_spine lines 52-56: the repair call and its validation.
plan_spine_repair ==
    /\ pc = "spine_repair"
    /\ \E repaired \in chat(JsonReplies) :
        /\ Called("repair", repaired)
        /\ IF Raised(repaired)
           THEN ChatError(repaired) /\ UNCHANGED <<payload, validated>>
           ELSE LET spine == spine_parse_and_validate(repaired)
                IN  IF spine = "None"
                    THEN /\ Raise("terminal", NoPath, "")
                         /\ UNCHANGED <<payload, validated>>
                    ELSE Accept(spine, "spine", "spine_write")
    /\ UNCHANGED <<frame, fs, payload2, backend_used, written>>

\* plan_spine lines 58-59: the spine file is written.
plan_spine_write ==
    /\ pc = "spine_write"
    /\ write_text(plot_spine_path, File(payload, "spine"))
    /\ pc' = "spine_meta"
    /\ UNCHANGED <<frame, err, callLog, replies, payload, payload2,
                   backend_used, validated>>

\* plan_spine lines 61-74: the metadata file is written (it has no backend field).
plan_spine_meta ==
    /\ pc = "spine_meta"
    /\ write_text(plot_spine_meta_path, Meta(""))
    /\ pc' = "ok"
    /\ UNCHANGED <<frame, err, callLog, replies, payload, payload2,
                   backend_used, validated>>

(***************************************************************************)
(* plan_beats.py                                                           *)
(***************************************************************************)
\* A reply may be the backend's raw envelope around the text.
BeatsReplies == JsonReplies \cup {"wrapped_good"}

extract_llm_content(text) == IF text = "wrapped_good" THEN "good" ELSE text

beats_parse_and_validate(content) ==
    LET data == json_loads(extract_llm_content(content))
    IN  IF data = "JSONDecodeError"
        THEN [payload |-> "None", errors |-> <<"Response is not valid JSON">>]
        ELSE IF iter_errors(data) # <<>>
        THEN [payload |-> "None", errors |-> iter_errors(data)]
        ELSE [payload |-> data, errors |-> <<>>]

\* Fault: plan_beats looking for the story spec and the scene plan before
\* the cache check.
plan_beats_begin_prerequisites_first ==
    \E scene_id \in SceneIds, force \in BOOLEAN, env \in Envs, o \in ProbeOutcomes :
        /\ Enter("plan_beats", Args(scene_id, 0, "", 0), force, env)
        /\ payload' = "None"
        /\ validated' = {}
        /\ LET rb == resolve_backend(env.base, env.setting, o)
               stop(step) == step /\ backend_used' = ""
           IN  IF ~exists(inputs_spec_path)
               THEN stop(Raise("missing", inputs_spec_path, "seed apply"))
               ELSE IF ~exists(scene_plan_path(scene_id))
               THEN stop(Raise("missing", scene_plan_path(scene_id), "plan scenes"))
               ELSE IF exists(scene_beats_path(scene_id)) /\ ~force
               THEN stop(Skip)
               ELSE IF rb.backend = "ValueError"
               THEN stop(Raise("config", NoPath, ""))
               ELSE /\ pc' = "beats_draft"
                    /\ err' = NoErr
                    /\ backend_used' = rb.backend

\* plan_beats lines 36-70: cache check, required story spec and scene plan,
\* resolve_backend for the metadata.
plan_beats_begin ==
    \E scene_id \in SceneIds, force \in BOOLEAN, env \in Envs, o \in ProbeOutcomes :
        /\ Enter("plan_beats", Args(scene_id, 0, "", 0), force, env)
        /\ payload' = "None"
        /\ validated' = {}
        /\ LET rb == resolve_backend(env.base, env.setting, o)
               stop(step) == step /\ backend_used' = ""
           IN  IF exists(scene_beats_path(scene_id)) /\ ~force
               THEN stop(Skip)
               ELSE IF ~exists(inputs_spec_path)
               THEN stop(Raise("missing", inputs_spec_path, "seed apply"))
               ELSE IF ~exists(scene_plan_path(scene_id))
               THEN stop(Raise("missing", scene_plan_path(scene_id), "plan scenes"))
               ELSE IF rb.backend = "ValueError"
               THEN stop(Raise("config", NoPath, ""))
               ELSE /\ pc' = "beats_draft"
                    /\ err' = NoErr
                    /\ backend_used' = rb.backend

\* plan_beats lines 72-75: the draft call and its validation.
plan_beats_draft ==
    /\ pc = "beats_draft"
    /\ \E content \in chat(BeatsReplies) :
        /\ Called("draft", content)
        /\ IF Raised(content)
           THEN ChatError(content) /\ UNCHANGED <<payload, validated>>
           ELSE LET r == beats_parse_and_validate(content)
                IN  IF r.errors # <<>>
                    THEN /\ pc' = "beats_repair"
                         /\ UNCHANGED <<payload, validated, err>>
                    ELSE Accept(r.payload, "beats", "beats_write")
    /\ UNCHANGED <<frame, fs, payload2, backend_used, written>>

\* Fault: plan_beats persisting the repaired reply without validating it.
plan_beats_repair_unvalidated ==
    /\ pc = "beats_repair"
    /\ \E repaired \in chat(BeatsReplies) :
        /\ Called("repair", repaired)
        /\ IF Raised(repaired)
           THEN ChatError(repaired) /\ UNCHANGED <<payload, validated>>
           ELSE /\ pc' = "beats_write"
                /\ payload' = extract_llm_content(repaired)
                /\ UNCHANGED <<validated, err>>
    /\ UNCHANGED <<frame, fs, payload2, backend_used, written>>

\* plan_beats lines 76-80: the repair call and its validation.
plan_beats_repair ==
    /\ pc = "beats_repair"
    /\ \E repaired \in chat(BeatsReplies) :
        /\ Called("repair", repaired)
        /\ IF Raised(repaired)
           THEN ChatError(repaired) /\ UNCHANGED <<payload, validated>>
           ELSE LET r == beats_parse_and_validate(repaired)
                IN  IF r.errors # <<>>
                    THEN /\ Raise("terminal", NoPath, "")
                         /\ UNCHANGED <<payload, validated>>
                    ELSE Accept(r.payload, "beats", "beats_write")
    /\ UNCHANGED <<frame, fs, payload2, backend_used, written>>

\* plan_beats lines 82-83: the beats file is written.
plan_beats_write ==
    /\ pc = "beats_write"
    /\ write_text(scene_beats_path(inv.scene), File(payload, "beats"))
    /\ pc' = "beats_meta"
    /\ UNCHANGED <<frame, err, callLog, replies, payload, payload2,
                   backend_used, validated>>

\* plan_beats lines 85-102: the metadata file is written.
plan_beats_meta ==
    /\ pc = "beats_meta"
    /\ write_text(scene_beats_meta_path(inv.scene), Meta(backend_used))
    /\ pc' = "ok"
    /\ UNCHANGED <<frame, err, callLog, replies, payload, payload2,
                   backend_used, validated>>

(***************************************************************************)
(* plan_scenes.py                                                          *)
(***************************************************************************)
Range(seq) == {seq[i] : i \in DOMAIN seq}

\* json.loads of the spine file: every spine on disk has one act with
\* chapter 1 = [1] and chapter 2 = [2].
spine_json(file) ==
    [acts |-> <<[act_no |-> 1,
                 chapters |-> <<[chapter_no |-> 1, scenes |-> <<1>>],
                                [chapter_no |-> 2, scenes |-> <<2>>]>>]>>]

RECURSIVE FlattenChapters(_)
FlattenChapters(acts) ==
    IF acts = <<>> THEN <<>>
    ELSE Head(acts).chapters \o FlattenChapters(Tail(acts))

RECURSIVE ScenesOfChapter(_, _)
ScenesOfChapter(chapters, chapter_no) ==
    IF chapters = <<>> THEN <<>>
    ELSE (IF Head(chapters).chapter_no = chapter_no
          THEN Head(chapters).scenes ELSE <<>>)
         \o ScenesOfChapter(Tail(chapters), chapter_no)

extract_scene_ids(spine) ==
    LET chapters == FlattenChapters(spine.acts)
        numbers == {chapters[i].chapter_no : i \in DOMAIN chapters}
        ids == UNION {Range(chapters[i].scenes) : i \in DOMAIN chapters}
        \* a later assignment to scene_id_to_chapter[scene_id] replaces an earlier one
        last(id) == CHOOSE i \in DOMAIN chapters :
                        /\ id \in Range(chapters[i].scenes)
                        /\ \A k \in DOMAIN chapters :
                               k > i => id \notin Range(chapters[k].scenes)
    IN  [scene_ids_by_chapter |->
             [n \in numbers |-> ScenesOfChapter(chapters, n)],
         scene_id_to_chapter |->
             [id \in ids |-> chapters[last(id)].chapter_no]]

plan_path_for_scene(scene_id) == <<"plan", scene_id>>

\* Fault: the beats path of the first scene for every scene.
beats_path_for_scene_first(scene_id) == <<"beats", 1>>

beats_path_for_scene(scene_id) == <<"beats", scene_id>>

IndexEntry(id, ch, pp, bp) ==
    [scene_id |-> id, chapter_no |-> ch, plan_path |-> <<"plan", pp>>,
     beats_path |-> <<"beats", bp>>]
ScenePlan(id, ch, br) ==
    [scene_id |-> id, chapter_no |-> ch, beats_ref |-> <<"beats", br>>,
     schema_ok |-> TRUE]

\* The reply texts plan_scenes may get, and json.loads of each (garbage is no
\* JSON).  has_index / has_plans: the key is present; index_ok: the index
\* passes scenes-index.schema.json.
ScenesReplies ==
    {"garbage", "sc_all", "sc_ch1", "sc_ch2", "sc_short", "sc_wrongchap",
     "sc_schema", "sc_badpath", "sc_badref"}

FullIndex == <<IndexEntry(1, 1, 1, 1), IndexEntry(2, 2, 2, 2)>>

scenes_json(text) ==
    LET reply(index_ok, scenes, has_plans, plans) ==
            [has_index |-> TRUE, index_ok |-> index_ok, scenes |-> scenes,
             has_plans |-> has_plans, plans |-> plans]
    IN  CASE text = "sc_all" ->
               reply(TRUE, FullIndex, TRUE,
                     <<ScenePlan(1, 1, 1), ScenePlan(2, 2, 2)>>)
          [] text = "sc_ch1" ->
               reply(TRUE, FullIndex, TRUE, <<ScenePlan(1, 1, 1)>>)
          [] text = "sc_ch2" ->
               reply(TRUE, FullIndex, TRUE, <<ScenePlan(2, 2, 2)>>)
          [] text = "sc_short" ->
               reply(TRUE, <<IndexEntry(1, 1, 1, 1)>>, TRUE,
                     <<ScenePlan(1, 1, 1)>>)
          [] text = "sc_wrongchap" ->
               reply(TRUE, <<IndexEntry(1, 1, 1, 1), IndexEntry(2, 1, 2, 2)>>,
                     TRUE, <<ScenePlan(1, 1, 1), ScenePlan(2, 1, 2)>>)
          [] text = "sc_schema" ->
               reply(FALSE, FullIndex, TRUE,
                     <<ScenePlan(1, 1, 1), ScenePlan(2, 2, 2)>>)
          [] text = "sc_badpath" ->
               reply(TRUE, <<IndexEntry(1, 1, 1, 1), IndexEntry(2, 2, 1, 2)>>,
                     TRUE, <<ScenePlan(1, 1, 1), ScenePlan(2, 2, 2)>>)
          [] text = "sc_badref" ->
               reply(TRUE, <<IndexEntry(1, 1, 1, 1), IndexEntry(2, 2, 2, 1)>>,
                     TRUE, <<ScenePlan(1, 1, 1), ScenePlan(2, 2, 1)>>)

scenes_parse_and_validate(content, scene_ids_by_chapter, scene_id_to_chapter, target_scene_ids) ==
    IF json_loads(content) = "JSONDecodeError"
    THEN [ok |-> FALSE, errors |-> {"Response is not valid JSON"}]
    ELSE
    LET parsed == scenes_json(content)
        entries == IF parsed.has_index THEN parsed.scenes ELSE <<>>
        plans == parsed.plans
        expected_scene_ids_set ==
            UNION {Range(scene_ids_by_chapter[c]) : c \in DOMAIN scene_ids_by_chapter}
        index_errors ==
            IF ~parsed.has_index THEN {"Missing index in response"}
            ELSE IF ~parsed.index_ok THEN {"index: schema violation"}
            ELSE {}
        plans_errors ==
            IF ~parsed.has_plans THEN {"Missing plans in response"} ELSE {}
        entry_errors(entry) ==
            IF entry.scene_id \notin expected_scene_ids_set
            THEN {"index includes unknown scene_id"}
            ELSE (IF entry.chapter_no # scene_id_to_chapter[entry.scene_id]
                  THEN {"scene_id has wrong chapter_no"} ELSE {})
                 \cup (IF entry.plan_path # plan_path_for_scene(entry.scene_id)
                       THEN {"scene_id has invalid plan_path"} ELSE {})
                 \cup (IF entry.beats_path # beats_path_for_scene(entry.scene_id)
                       THEN {"scene_id has invalid beats_path"} ELSE {})
        seen_ids == {entries[i].scene_id : i \in DOMAIN entries}
        missing == expected_scene_ids_set \ seen_ids
        plan_errors(plan) ==
            (IF ~plan.schema_ok THEN {"plan: schema violation"} ELSE {})
            \cup
            (IF plan.scene_id \notin expected_scene_ids_set
             THEN {"plan has unknown scene_id"}
             ELSE (IF plan.chapter_no # scene_id_to_chapter[plan.scene_id]
                   THEN {"plan scene_id has wrong chapter_no"} ELSE {})
                  \cup (IF plan.beats_ref # beats_path_for_scene(plan.scene_id)
                        THEN {"plan scene_id has invalid beats_ref"} ELSE {}))
        plan_ids == {plans[i].scene_id : i \in DOMAIN plans}
                        \cap expected_scene_ids_set
        missing_plans == Range(target_scene_ids) \ plan_ids
        extra_plans == plan_ids \ Range(target_scene_ids)
        errors ==
            index_errors \cup plans_errors
            \cup UNION {entry_errors(entries[i]) : i \in DOMAIN entries}
            \cup (IF parsed.has_index /\ missing # {}
                  THEN {"index missing scenes"} ELSE {})
            \cup (IF parsed.has_plans
                  THEN UNION {plan_errors(plans[i]) : i \in DOMAIN plans}
                       \cup (IF missing_plans # {}
                             THEN {"missing plans for scenes"} ELSE {})
                       \cup (IF extra_plans # {}
                             THEN {"plans provided for unexpected scenes"} ELSE {})
                  ELSE {})
    IN  [ok |-> errors = {}, errors |-> errors]

\* None is written 0: the chapter numbers of the spine start at 1.
ChapterArgs == {0, 1, 2, 3}

\* Fault: the scenes of every chapter as target also under a chapter scope.
target_scene_ids_all(chapter, scene_ids_by_chapter) ==
    LET chapters == FlattenChapters(spine_json(fs[plot_spine_path]).acts)
        RECURSIVE All(_)
        All(cs) == IF cs = <<>> THEN <<>>
                   ELSE Head(cs).scenes \o All(Tail(cs))
    IN  All(chapters)

\* target_scene_ids of plan_scenes lines 58-73.
target_scene_ids(chapter, scene_ids_by_chapter) ==
    IF chapter # 0
    THEN scene_ids_by_chapter[chapter]
    ELSE LET chapters == FlattenChapters(spine_json(fs[plot_spine_path]).acts)
             RECURSIVE All(_)
             All(cs) == IF cs = <<>> THEN <<>>
                        ELSE Head(cs).scenes \o All(Tail(cs))
         IN  All(chapters)

\* Fault: the cache check on the index alone also under a chapter scope.
plan_scenes_begin_index_only ==
    \E chapter \in ChapterArgs, force \in BOOLEAN, env \in Envs, o \in ProbeOutcomes :
        /\ Enter("plan_scenes", Args(0, chapter, "", 0), force, env)
        /\ payload' = "None"
        /\ validated' = {}
        /\ LET rb == resolve_backend(env.base, env.setting, o)
               by_chapter ==
                   extract_scene_ids(spine_json(fs[plot_spine_path])).scene_ids_by_chapter
               stop(step) == step /\ backend_used' = ""
           IN  IF exists(scenes_index_path) /\ ~force
               THEN stop(Skip)
               ELSE IF ~exists(inputs_spec_path)
               THEN stop(Raise("missing", inputs_spec_path, "seed apply"))
               ELSE IF ~exists(plot_spine_path)
               THEN stop(Raise("missing", plot_spine_path, "plan spine"))
               ELSE IF chapter # 0 /\ chapter \notin DOMAIN by_chapter
               THEN stop(Raise("chapter", NoPath, ""))
               ELSE IF /\ chapter # 0
                       /\ exists(scenes_index_path) /\ ~force
                       /\ \A scene_id \in Range(by_chapter[chapter]) :
                              exists(scene_plan_path(scene_id))
               THEN stop(Skip)
               ELSE IF rb.backend = "ValueError"
               THEN stop(Raise("config", NoPath, ""))
               ELSE /\ pc' = "scenes_draft"
                    /\ err' = NoErr
                    /\ backend_used' = rb.backend

\* plan_scenes lines 36-76: cache check, required story spec and spine, the
\* chapter's scenes, the chapter-scoped cache check, resolve_backend.
plan_scenes_begin ==
    \E chapter \in ChapterArgs, force \in BOOLEAN, env \in Envs, o \in ProbeOutcomes :
        /\ Enter("plan_scenes", Args(0, chapter, "", 0), force, env)
        /\ payload' = "None"
        /\ validated' = {}
        /\ LET rb == resolve_backend(env.base, env.setting, o)
               by_chapter ==
                   extract_scene_ids(spine_json(fs[plot_spine_path])).scene_ids_by_chapter
               stop(step) == step /\ backend_used' = ""
           IN  IF chapter = 0 /\ exists(scenes_index_path) /\ ~force
               THEN stop(Skip)
               ELSE IF ~exists(inputs_spec_path)
               THEN stop(Raise("missing", inputs_spec_path, "seed apply"))
               ELSE IF ~exists(plot_spine_path)
               THEN stop(Raise("missing", plot_spine_path, "plan spine"))
               ELSE IF chapter # 0 /\ chapter \notin DOMAIN by_chapter
               THEN stop(Raise("chapter", NoPath, ""))
               ELSE IF /\ chapter # 0
                       /\ exists(scenes_index_path) /\ ~force
                       /\ \A scene_id \in Range(by_chapter[chapter]) :
                              exists(scene_plan_path(scene_id))
               THEN stop(Skip)
               ELSE IF rb.backend = "ValueError"
               THEN stop(Raise("config", NoPath, ""))
               ELSE /\ pc' = "scenes_draft"
                    /\ err' = NoErr
                    /\ backend_used' = rb.backend

scenes_validate(content) ==
    LET ids == extract_scene_ids(spine_json(fs[plot_spine_path]))
    IN  scenes_parse_and_validate(
            content, ids.scene_ids_by_chapter, ids.scene_id_to_chapter,
            target_scene_ids(inv.chapter, ids.scene_ids_by_chapter))

\* index and plans of a reply without errors go on to be persisted.
AcceptScenes(content) ==
    /\ pc' = "scenes_write_index"
    /\ payload' = content
    /\ validated' = validated \cup {File(content, "index"), File(content, "plan")}
    /\ UNCHANGED err

\* plan_scenes lines 78-86: the draft call and its validation.
plan_scenes_draft ==
    /\ pc = "scenes_draft"
    /\ \E content \in chat(ScenesReplies) :
        /\ Called("draft", content)
        /\ IF Raised(content)
           THEN ChatError(content) /\ UNCHANGED <<payload, validated>>
           ELSE IF ~scenes_validate(content).ok
           THEN /\ pc' = "scenes_repair"
                /\ UNCHANGED <<payload, validated, err>>
           ELSE AcceptScenes(content)
    /\ UNCHANGED <<frame, fs, payload2, backend_used, written>>

\* plan_scenes lines 87-99: the repair call and its validation.
plan_scenes_repair ==
    /\ pc = "scenes_repair"
    /\ \E repaired \in chat(ScenesReplies) :
        /\ Called("repair", repaired)
        /\ IF Raised(repaired)
           THEN ChatError(repaired) /\ UNCHANGED <<payload, validated>>
           ELSE IF ~scenes_validate(repaired).ok
           THEN /\ Raise("terminal", NoPath, "")
                /\ UNCHANGED <<payload, validated>>
           ELSE AcceptScenes(repaired)
    /\ UNCHANGED <<frame, fs, payload2, backend_used, written>>

\* plan_scenes lines 101-102: the scenes index is written.
plan_scenes_write_index ==
    /\ pc = "scenes_write_index"
    /\ write_text(scenes_index_path, File(payload, "index"))
    /\ pc' = IF scenes_json(payload).plans = <<>>
             THEN "scenes_meta" ELSE "scenes_write_plan"
    /\ UNCHANGED <<frame, err, callLog, replies, payload, payload2,
                   backend_used, validated>>

\* plan_scenes lines 104-106: one turn of the loop over plans.
plan_scenes_write_plan ==
    /\ pc = "scenes_write_plan"
    /\ LET plans == scenes_json(payload).plans
           plan == plans[Len(written)]
       IN  /\ write_text(scene_plan_path(plan.scene_id), File(payload, "plan"))
           /\ pc' = IF Len(written) = Len(plans)
                    THEN "scenes_meta" ELSE "scenes_write_plan"
    /\ UNCHANGED <<frame, err, callLog, replies, payload, payload2,
                   backend_used, validated>>

\* plan_scenes lines 108-122: the metadata file is written.
plan_scenes_meta ==
    /\ pc = "scenes_meta"
    /\ write_text(scenes_meta_path, Meta(backend_used))
    /\ pc' = "ok"
    /\ UNCHANGED <<frame, err, callLog, replies, payload, payload2,
                   backend_used, validated>>

(***************************************************************************)
(* build_context.py: the stage function.  Whether the assembled packet     *)
(* passes scene-context-packet.schema.json depends on the artifacts read,  *)
(* so it is an input of the step that assembles it.                        *)
(***************************************************************************)
StyleProfiles == {"absent", "valid", "invalid"}

SummaryTexts == {"summary"}

\* Fault: the draft of the prior scene preferred to its final text.
prior_scene_text_path_draft_first(scene_id) ==
    IF scene_id <= 1 THEN NoPath
    ELSE IF exists(draft_path(scene_id - 1)) THEN draft_path(scene_id - 1)
    ELSE IF exists(final_path(scene_id - 1)) THEN final_path(scene_id - 1)
    ELSE NoPath

prior_scene_text_path(scene_id) ==
    IF scene_id <= 1 THEN NoPath
    ELSE IF exists(final_path(scene_id - 1)) THEN final_path(scene_id - 1)
    ELSE IF exists(draft_path(scene_id - 1)) THEN draft_path(scene_id - 1)
    ELSE NoPath

context_parse_json_or_none(content) ==
    IF json_loads(content) = "JSONDecodeError" THEN "None" ELSE json_loads(content)

validate_context(context, assembled_valid) ==
    IF context = "assembled"
    THEN (IF assembled_valid THEN <<>> ELSE <<"schema violation">>)
    ELSE iter_errors(context)

\* Fault: build_context sending every assembled packet to the repair call.
build_context_assemble_always_repair(assembled_valid) ==
    /\ pc' = "context_repair"
    /\ payload' = "assembled"
    /\ validated' = IF validate_context("assembled", assembled_valid) # <<>>
                    THEN {} ELSE {File("assembled", "context")}
    /\ err' = NoErr

\* build_context lines 133-170: the rings, the packet, its validation.
build_context_assemble(assembled_valid) ==
    IF validate_context("assembled", assembled_valid) # <<>>
    THEN /\ pc' = "context_repair"
         /\ payload' = "assembled"
         /\ validated' = {}
         /\ err' = NoErr
    ELSE /\ pc' = "context_write"
         /\ payload' = "assembled"
         /\ validated' = {File("assembled", "context")}
         /\ err' = NoErr

\* build_context lines 41-131 (and on to 170 when no prior scene is summarised):
\* cache check, required story spec, scene plan and scene beats, the optional
\* artifacts with the style profile validated, the prior scene's prose.
build_context_begin ==
    \E scene_id \in SceneIds, force \in BOOLEAN, env \in Envs,
       style \in StyleProfiles, assembled_valid \in BOOLEAN :
        /\ Enter("build_context", Args(scene_id, 0, "", 0), force, env)
        /\ backend_used' = ""
        /\ LET stop(step) == step /\ payload' = "None" /\ validated' = {}
           IN  IF exists(scene_context_path(scene_id)) /\ ~force
               THEN stop(Skip)
               ELSE IF ~exists(inputs_spec_path)
               THEN stop(Raise("missing", inputs_spec_path, "seed apply"))
               ELSE IF ~exists(scene_plan_path(scene_id))
               THEN stop(Raise("missing", scene_plan_path(scene_id), "plan scenes"))
               ELSE IF ~exists(scene_beats_path(scene_id))
               THEN stop(Raise("missing", scene_beats_path(scene_id), "plan beats"))
               ELSE IF style = "invalid"
               THEN stop(Raise("style", NoPath, ""))
               ELSE IF prior_scene_text_path(scene_id) # NoPath
               THEN stop(pc' = "context_summary" /\ err' = NoErr)
               ELSE build_context_assemble(assembled_valid)

\* build_context lines 129-170: summarize_prior_scene, then the assembly.
build_context_summary ==
    /\ pc = "context_summary"
    /\ \E summary_text \in chat(SummaryTexts), assembled_valid \in BOOLEAN :
        /\ Called("summary", summary_text)
        /\ IF Raised(summary_text)
           THEN ChatError(summary_text) /\ UNCHANGED <<payload, validated>>
           ELSE build_context_assemble(assembled_valid)
    /\ UNCHANGED <<frame, fs, payload2, backend_used, written>>

\* build_context lines 171-181: the repair call and the repaired packet's validation.
build_context_repair ==
    /\ pc = "context_repair"
    /\ \E repaired \in chat(JsonReplies) :
        /\ Called("repair", repaired)
        /\ IF Raised(repaired)
           THEN ChatError(repaired) /\ UNCHANGED <<payload, validated>>
           ELSE LET repaired_context == context_parse_json_or_none(repaired)
                IN  IF repaired_context = "None"
                    THEN /\ Raise("terminal", NoPath, "")
                         /\ UNCHANGED <<payload, validated>>
                    ELSE IF validate_context(repaired_context, FALSE) # <<>>
                    THEN /\ Raise("terminal", NoPath, "")
                         /\ UNCHANGED <<payload, validated>>
                    ELSE Accept(repaired_context, "context", "context_write")
    /\ UNCHANGED <<frame, fs, payload2, backend_used, written>>

\* build_context lines 183-184: the context packet is written.
build_context_write ==
    /\ pc = "context_write"
    /\ write_text(scene_context_path(inv.scene), File(payload, "context"))
    /\ pc' = "context_meta"
    /\ UNCHANGED <<frame, err, callLog, replies, payload, payload2,
                   backend_used, validated>>

\* build_context lines 186-200: resolve_backend, then the metadata file.
build_context_meta ==
    /\ pc = "context_meta"
    /\ \E o \in ProbeOutcomes :
        LET rb == resolve_backend(inv.base, inv.setting, o)
        IN  IF rb.backend = "ValueError"
            THEN /\ Raise("config", NoPath, "")
                 /\ UNCHANGED <<fs, written, backend_used>>
            ELSE /\ backend_used' = rb.backend
                 /\ write_text(scene_context_meta_path(inv.scene), Meta(rb.backend))
                 /\ pc' = "ok"
                 /\ UNCHANGED err
    /\ UNCHANGED <<frame, callLog, replies, payload, payload2, validated>>

(***************************************************************************)
(* write_scene.py                                                          *)
(***************************************************************************)
\* Bounds of the write_scene inputs: the target word count and the number
\* of beats in the context packet.
TargetWords == 10
BeatCount == 3

\* The prose replies: words and paragraphs of the stripped text.
DraftReplies == {"empty", "short", "edge", "flat", "fits", "long"}

draft_text(draft) ==
    CASE draft = "empty" -> [words |-> 0, paragraphs |-> 0]
      [] draft = "short" -> [words |-> 5, paragraphs |-> 2]
      [] draft = "edge" -> [words |-> 6, paragraphs |-> 2]
      [] draft = "flat" -> [words |-> 10, paragraphs |-> 1]
      [] draft = "fits" -> [words |-> 10, paragraphs |-> 2]
      [] draft = "long" -> [words |-> 16, paragraphs |-> 3]

\* int(target_words * 0.6) and int(target_words * 1.4)
validate_draft(draft, target_words, beat_count) ==
    LET text == draft_text(draft)
        min_words == (target_words * 6) \div 10
        max_words == (target_words * 14) \div 10
        min_paragraphs == (beat_count + 1) \div 2
        issues ==
            (IF text.words < min_words \/ text.words > max_words
             THEN {"Word count outside range"} ELSE {})
            \cup (IF beat_count # 0 /\ text.paragraphs < min_paragraphs
                  THEN {"Paragraph count too low for beats"} ELSE {})
    IN  IF text.words = 0
        THEN [ok |-> FALSE, issues |-> {"Draft is empty"}]
        ELSE [ok |-> issues = {}, issues |-> issues]

\* write_scene lines 29-45: cache check, required context packet, target.
write_scene_begin ==
    \E scene_id \in SceneIds, force \in BOOLEAN, env \in Envs :
        /\ Enter("write_scene", Args(scene_id, 0, "", TargetWords), force, env)
        /\ Fresh
        /\ IF exists(draft_path(scene_id)) /\ ~force
           THEN Skip
           ELSE IF ~exists(scene_context_path(scene_id))
           THEN Raise("missing", scene_context_path(scene_id), "build-context")
           ELSE pc' = "write_draft" /\ err' = NoErr

\* One prose call of write_scene and validate_draft of its reply.
write_scene_call(kind, on_failure) ==
    \E draft \in chat(DraftReplies) :
        /\ Called(kind, draft)
        /\ IF Raised(draft)
           THEN ChatError(draft) /\ UNCHANGED <<payload, validated>>
           ELSE IF validate_draft(draft, inv.target, BeatCount).ok
           THEN Accept(draft, "prose", "write_output")
           ELSE /\ payload' = draft
                /\ on_failure
                /\ UNCHANGED validated

\* write_scene lines 45-49: the draft call.
write_scene_draft ==
    /\ pc = "write_draft"
    /\ write_scene_call("draft", pc' = "write_retry" /\ UNCHANGED err)
    /\ UNCHANGED <<frame, fs, payload2, backend_used, written>>

\* Fault: write_scene giving up when the retry reply fails validation.
write_scene_retry_gives_up ==
    /\ pc = "write_retry"
    /\ write_scene_call("retry", Raise("validation", NoPath, ""))
    /\ UNCHANGED <<frame, fs, payload2, backend_used, written>>

\* write_scene lines 50-53: the retry call.
write_scene_retry ==
    /\ pc = "write_retry"
    /\ write_scene_call("retry", pc' = "write_expand" /\ UNCHANGED err)
    /\ UNCHANGED <<frame, fs, payload2, backend_used, written>>

\* write_scene lines 54-59: the expand call.
write_scene_expand ==
    /\ pc = "write_expand"
    /\ write_scene_call("expand", Raise("validation", NoPath, ""))
    /\ UNCHANGED <<frame, fs, payload2, backend_used, written>>

\* write_scene lines 61-62: the prose file is written.
write_scene_output ==
    /\ pc = "write_output"
    /\ write_text(draft_path(inv.scene), File(payload, "prose"))
    /\ pc' = "write_meta"
    /\ UNCHANGED <<frame, err, callLog, replies, payload, payload2,
                   backend_used, validated>>

\* write_scene lines 64-77: resolve_backend, then the metadata file.
write_scene_meta ==
    /\ pc = "write_meta"
    /\ \E o \in ProbeOutcomes :
        LET rb == resolve_backend(inv.base, inv.setting, o)
        IN  IF rb.backend = "ValueError"
            THEN /\ Raise("config", NoPath, "")
                 /\ UNCHANGED <<fs, written, backend_used>>
            ELSE /\ backend_used' = rb.backend
                 /\ write_text(draft_meta_path(inv.scene), Meta(rb.backend))
                 /\ pc' = "ok"
                 /\ UNCHANGED err
    /\ UNCHANGED <<frame, callLog, replies, payload, payload2, validated>>

(***************************************************************************)
(* check_continuity.py                                                     *)
(***************************************************************************)
InputKinds == {"draft", "final"}

prose_path(scene_id, input_kind) ==
    IF input_kind = "final" THEN final_path(scene_id) ELSE draft_path(scene_id)

cc_parse_json_or_none(content) ==
    IF json_loads(content) = "JSONDecodeError" THEN "None" ELSE json_loads(content)

validate_json(data) == iter_errors(data)

\* generate_report / generate_patch: one call; a reply that is no JSON raises.
\* Then validate_json of check_continuity lines 57 / 65.
generate(kind, part, on_valid, on_errors) ==
    \E content \in chat(JsonReplies) :
        /\ Called(kind, content)
        /\ IF Raised(content)
           THEN ChatError(content) /\ UNCHANGED <<payload, payload2, validated>>
           ELSE LET parsed == cc_parse_json_or_none(content)
                IN  IF parsed = "None"
                    THEN /\ Raise("not_json", NoPath, "")
                         /\ UNCHANGED <<payload, payload2, validated>>
                    ELSE IF validate_json(parsed) # <<>>
                    THEN /\ on_errors
                         /\ IF part = "report"
                            THEN payload' = parsed /\ UNCHANGED payload2
                            ELSE payload2' = parsed /\ UNCHANGED payload
                         /\ UNCHANGED validated
                    ELSE /\ pc' = on_valid
                         /\ IF part = "report"
                            THEN payload' = parsed /\ UNCHANGED payload2
                            ELSE payload2' = parsed /\ UNCHANGED payload
                         /\ validated' = validated \cup {File(parsed, part)}
                         /\ UNCHANGED err

\* check_continuity lines 30-54: cache check, required context packet and prose.
check_continuity_begin ==
    \E scene_id \in SceneIds, input_kind \in InputKinds, force \in BOOLEAN,
       env \in Envs :
        /\ Enter("check_continuity", Args(scene_id, 0, input_kind, 0), force, env)
        /\ Fresh
        /\ IF exists(report_path(scene_id)) /\ exists(patch_path(scene_id)) /\ ~force
           THEN Skip
           ELSE IF ~exists(scene_context_path(scene_id))
           THEN Raise("missing", scene_context_path(scene_id), "build-context")
           ELSE IF ~exists(prose_path(scene_id, input_kind))
           THEN Raise("missing", prose_path(scene_id, input_kind), "write scene")
           ELSE pc' = "cc_report" /\ err' = NoErr

\* Fault: check_continuity going on to the patch with a report that has errors.
check_continuity_report_unrepaired ==
    /\ pc = "cc_report"
    /\ generate("report", "report", "cc_patch", pc' = "cc_patch" /\ UNCHANGED err)
    /\ UNCHANGED <<frame, fs, backend_used, written>>

\* check_continuity lines 56-57: generate_report and its validation.
check_continuity_report ==
    /\ pc = "cc_report"
    /\ generate("report", "report", "cc_patch",
                pc' = "cc_report_repair" /\ UNCHANGED err)
    /\ UNCHANGED <<frame, fs, backend_used, written>>

\* check_continuity lines 58-62: repair_json of the report and its validation.
check_continuity_report_repair ==
    /\ pc = "cc_report_repair"
    /\ generate("repair", "report", "cc_patch", Raise("terminal", NoPath, ""))
    /\ UNCHANGED <<frame, fs, backend_used, written>>

\* check_continuity lines 64-65: generate_patch and its validation.
check_continuity_patch ==
    /\ pc = "cc_patch"
    /\ generate("patch", "patch", "cc_write_report",
                pc' = "cc_patch_repair" /\ UNCHANGED err)
    /\ UNCHANGED <<frame, fs, backend_used, written>>

\* check_continuity lines 66-70: repair_json of the patch and its validation.
check_continuity_patch_repair ==
    /\ pc = "cc_patch_repair"
    /\ generate("repair", "patch", "cc_write_report", Raise("terminal", NoPath, ""))
    /\ UNCHANGED <<frame, fs, backend_used, written>>

\* check_continuity lines 72-73: the report file is written.
check_continuity_write_report ==
    /\ pc = "cc_write_report"
    /\ write_text(report_path(inv.scene), File(payload, "report"))
    /\ pc' = "cc_write_patch"
    /\ UNCHANGED <<frame, err, callLog, replies, payload, payload2,
                   backend_used, validated>>

\* check_continuity line 74: the patch file is written.
check_continuity_write_patch ==
    /\ pc = "cc_write_patch"
    /\ write_text(patch_path(inv.scene), File(payload2, "patch"))
    /\ pc' = "cc_meta"
    /\ UNCHANGED <<frame, err, callLog, replies, payload, payload2,
                   backend_used, validated>>

\* check_continuity lines 76-90: resolve_backend, then the metadata file.
check_continuity_meta ==
    /\ pc = "cc_meta"
    /\ \E o \in ProbeOutcomes :
        LET rb == resolve_backend(inv.base, inv.setting, o)
        IN  IF rb.backend = "ValueError"
            THEN /\ Raise("config", NoPath, "")
                 /\ UNCHANGED <<fs, written, backend_used>>
            ELSE /\ backend_used' = rb.backend
                 /\ write_text(continuity_meta_path(inv.scene), Meta(rb.backend))
                 /\ pc' = "ok"
                 /\ UNCHANGED err
    /\ UNCHANGED <<frame, callLog, replies, payload, payload2, validated>>

(***************************************************************************)
(* The process running a stage function is killed between two steps: what  *)
(* it held in memory is gone, what it wrote stays.                         *)
(***************************************************************************)
Crash ==
    /\ pc \notin Ended
    /\ pc' = "crashed"
    /\ callLog' = <<>>
    /\ replies' = <<>>
    /\ payload' = "None"
    /\ payload2' = "None"
    /\ backend_used' = ""
    /\ UNCHANGED <<frame, fs, err, written, validated>>

(***************************************************************************)
(* The artifact tree an invocation can find: the pipeline has been run up  *)
(* to some stage for every scene, and the first scene may have been        *)
(* finalised by hand before its context packet or its draft exists.        *)
(***************************************************************************)
LevelOf(kind) ==
    CASE kind = "story_spec" -> 1
      [] kind \in {"spine", "spine_meta"} -> 2
      [] kind \in {"scenes_index", "scenes_meta", "plan"} -> 3
      [] kind \in {"beats", "beats_meta"} -> 4
      [] kind \in {"context", "context_meta"} -> 5
      [] kind \in {"draft", "draft_meta"} -> 6
      [] kind \in {"report", "patch", "continuity_meta"} -> 7
      [] OTHER -> 8

Levels == 0 .. 7

Tree(level, finalised) ==
    [p \in Paths |->
        IF p = final_path(1)
        THEN (IF finalised THEN File("old", "final") ELSE Absent)
        ELSE IF LevelOf(p[1]) <= level THEN File("old", p[1]) ELSE Absent]

InitTrees ==
    {Tree(level, FALSE) : level \in Levels}
    \cup {Tree(level, TRUE) : level \in {4, 5}}

NoPure == [op |-> "none"]

Init ==
    /\ fs \in InitTrees
    /\ pc = "idle"
    /\ inv = NoInv
    /\ prev = NoPrev
    /\ ninv = 0
    /\ err = NoErr
    /\ callLog = <<>>
    /\ replies = <<>>
    /\ payload = "None"
    /\ payload2 = "None"
    /\ backend_used = ""
    /\ written = <<>>
    /\ validated = {}
    /\ fs0 = fs
    /\ pure = NoPure

Next ==
    \/ plan_spine_begin
    \/ plan_spine_draft
    \/ plan_spine_repair
    \/ plan_spine_write
    \/ plan_spine_meta
    \/ plan_scenes_begin
    \/ plan_scenes_draft
    \/ plan_scenes_repair
    \/ plan_scenes_write_index
    \/ plan_scenes_write_plan
    \/ plan_scenes_meta
    \/ plan_beats_begin
    \/ plan_beats_draft
    \/ plan_beats_repair
    \/ plan_beats_write
    \/ plan_beats_meta
    \/ build_context_begin
    \/ build_context_summary
    \/ build_context_repair
    \/ build_context_write
    \/ build_context_meta
    \/ write_scene_begin
    \/ write_scene_draft
    \/ write_scene_retry
    \/ write_scene_expand
    \/ write_scene_output
    \/ write_scene_meta
    \/ check_continuity_begin
    \/ check_continuity_report
    \/ check_continuity_report_repair
    \/ check_continuity_patch
    \/ check_continuity_patch_repair
    \/ check_continuity_write_report
    \/ check_continuity_write_patch
    \/ check_continuity_meta
    \/ Crash

Spec == Init /\ [][Next]_vars

\* The pipeline at rest while a pure function is applied.
AtRest ==
    /\ fs = Tree(0, FALSE)
    /\ pc = "idle"
    /\ inv = NoInv
    /\ prev = NoPrev
    /\ ninv = 0
    /\ err = NoErr
    /\ callLog = <<>>
    /\ replies = <<>>
    /\ payload = "None"
    /\ payload2 = "None"
    /\ backend_used = ""
    /\ written = <<>>
    /\ validated = {}
    /\ fs0 = fs

pipeline == <<fs, pc, inv, prev, ninv, err, callLog, replies, payload, payload2,
              backend_used, written, validated, fs0>>

(***************************************************************************)
(* build_context.py: apply_include and the empty rings.                    *)
(***************************************************************************)
empty_ringA ==
    [premise |-> "", tone |-> <<>>, pov |-> "first", tense |-> "past",
     global_constraints |-> <<>>, style_rules |-> <<>>]

empty_ringB ==
    [scene_goal |-> "",
     setting |-> [location |-> [id |-> "", name |-> "", constraints |-> <<>>],
                  time |-> "", mood_tags |-> <<>>],
     cast |-> <<>>, beats |-> <<>>, continuity_locks |-> <<>>]

\* Fault: an empty ring C whose summary is the empty string.
empty_ringC_blank ==
    [prior_scene_summary |-> "", open_threads |-> <<>>, relevant_facts |-> <<>>,
     glossary |-> <<>>]

empty_ringC ==
    [prior_scene_summary |-> "N/A", open_threads |-> <<>>,
     relevant_facts |-> <<>>, glossary |-> <<>>]

apply_include(include, ringA, ringB, ringC) ==
    IF include = "all" THEN <<ringA, ringB, ringC>>
    ELSE IF include = "ringA" THEN <<ringA, empty_ringB, empty_ringC>>
    ELSE IF include = "ringB" THEN <<empty_ringA, ringB, empty_ringC>>
    ELSE IF include = "ringC" THEN <<empty_ringA, empty_ringB, ringC>>
    ELSE <<ringA, ringB, ringC>>

\* The inputs apply_include is applied to.
Includes == {"all", "ringA", "ringB", "ringC", "rings"}

RingAs ==
    {empty_ringA,
     [premise |-> "", tone |-> <<"wry">>, pov |-> "third", tense |-> "present",
      global_constraints |-> <<>>, style_rules |-> <<"Write in present tense.">>],
     [premise |-> "A heist", tone |-> <<"wry", "tense">>, pov |-> "first",
      tense |-> "past", global_constraints |-> <<"MUST end at dawn">>,
      style_rules |-> <<"Write in past tense.", "Keep paragraphs concise.">>]}

RingBs ==
    {empty_ringB,
     [scene_goal |-> "Open the vault",
      setting |-> [location |-> [id |-> "", name |-> "", constraints |-> <<>>],
                   time |-> "", mood_tags |-> <<>>],
      cast |-> <<>>, beats |-> <<"b1">>, continuity_locks |-> <<>>],
     [scene_goal |-> "Open the vault",
      setting |-> [location |-> [id |-> "loc1", name |-> "Vault",
                                 constraints |-> <<"no windows">>],
                   time |-> "night", mood_tags |-> <<"tense">>],
      cast |-> <<"c1", "c2">>, beats |-> <<"b1", "b2">>,
      continuity_locks |-> <<"the key is lost">>]}

RingCs ==
    {empty_ringC,
     [prior_scene_summary |-> "", open_threads |-> <<>>, relevant_facts |-> <<>>,
      glossary |-> <<>>],
     [prior_scene_summary |-> "They met.", open_threads |-> <<"the debt">>,
      relevant_facts |-> <<"f1", "f2">>, glossary |-> <<"vault">>]}

InitInclude ==
    /\ AtRest
    /\ pure \in [op : {"arguments"}, include : Includes, ringA : RingAs,
                 ringB : RingBs, ringC : RingCs, result : {<<>>}]

apply_include_call ==
    /\ pure.op = "arguments"
    /\ pure' = [pure EXCEPT
                   !.op = "apply_include",
                   !.result = apply_include(pure.include, pure.ringA,
                                            pure.ringB, pure.ringC)]
    /\ UNCHANGED pipeline

NextInclude == apply_include_call

SpecInclude == InitInclude /\ [][NextInclude]_vars

(***************************************************************************)
(* merge.py.  A JSON-like tree is a record of its type t and its value v:  *)
(* a scalar, the sequence of a list's items, the function of a dict.       *)
(***************************************************************************)
MaxLen == 2

S(n) == [t |-> "scalar", v |-> n]
L(items) == [t |-> "list", v |-> items]
D(entries) == [t |-> "dict", v |-> entries]

RECURSIVE merge(_, _)

\* Fault: merge_lists without the check for an equal item already taken.
merge_lists_concat(base, override) == L(base.v \o override.v)

merge_lists(base, override) ==
    LET items == base.v \o override.v
        RECURSIVE loop(_, _)
        loop(i, result) ==
            IF i > Len(items) THEN result
            ELSE loop(i + 1,
                      IF \E k \in DOMAIN result : items[i] = result[k]
                      THEN result ELSE Append(result, items[i]))
    IN  L(loop(1, <<>>))

\* Fault: merge_dicts taking override's value for a shared key without merging.
merge_dicts_shallow(base, override) ==
    D([key \in DOMAIN base.v \cup DOMAIN override.v |->
          IF key \in DOMAIN override.v THEN override.v[key] ELSE base.v[key]])

merge_dicts(base, override) ==
    D([key \in DOMAIN base.v \cup DOMAIN override.v |->
          IF key \in DOMAIN base.v /\ key \in DOMAIN override.v
          THEN merge(base.v[key], override.v[key])
          ELSE IF key \in DOMAIN base.v THEN base.v[key]
          ELSE override.v[key]])

merge(base, override) ==
    IF base.t = "dict" /\ override.t = "dict" THEN merge_dicts(base, override)
    ELSE IF base.t = "list" /\ override.t = "list" THEN merge_lists(base, override)
    ELSE override

\* The trees merge is applied to: scalars, lists of up to MaxLen items (a
\* scalar or a list with a repeated item), dicts over two keys.
Scalars == {S(1), S(2)}

SeqsUpTo(items, n) == UNION {[1 .. k -> items] : k \in 0 .. n}

Lists == {L(items) : items \in SeqsUpTo(Scalars \cup {L(<<S(1), S(1)>>)}, MaxLen)}

Keys == {"a", "b"}

DictValues ==
    Scalars
    \cup {L(items) : items \in SeqsUpTo(Scalars, MaxLen)}
    \cup {D([key \in {"a"} |-> L(<<S(2), S(2)>>)])}

Dicts == {D(entries) : entries \in UNION {[ks -> DictValues] : ks \in SUBSET Keys}}

Trees == Scalars \cup Lists \cup Dicts

InitMerge ==
    /\ AtRest
    /\ pure \in [op : {"arguments"}, base : Trees, override : Trees,
                 result : {S(0)}]

merge_call ==
    /\ pure.op = "arguments"
    /\ pure' = [pure EXCEPT !.op = "merge",
                            !.result = merge(pure.base, pure.override)]
    /\ UNCHANGED pipeline

NextMerge == merge_call

SpecMerge == InitMerge /\ [][NextMerge]_vars

(***************************************************************************)
(* build_context.py: select_resolution_artifact.  present is the set of    *)
(* tiers whose file <base>/<tier>.json exists.                             *)
(***************************************************************************)
Tiers == {"tiny", "medium", "full"}

\* Fault: a fallback order for medium that goes up before it goes down.
resolution_order_medium_up(resolution) ==
    IF resolution = "tiny" THEN <<"tiny", "medium", "full">>
    ELSE IF resolution = "medium" THEN <<"medium", "full", "tiny">>
    ELSE IF resolution = "full" THEN <<"full", "medium", "tiny">>
    ELSE <<"tiny", "medium", "full">>

resolution_order(resolution) ==
    IF resolution = "tiny" THEN <<"tiny", "medium", "full">>
    ELSE IF resolution = "medium" THEN <<"medium", "tiny", "full">>
    ELSE IF resolution = "full" THEN <<"full", "medium", "tiny">>
    ELSE <<"tiny", "medium", "full">>

\* data is the file read ("None" when there is none), res the tier used.
select_resolution_artifact(base, resolution, present) ==
    LET order == resolution_order(resolution)
        RECURSIVE loop(_)
        loop(i) ==
            IF i > Len(order) THEN [data |-> "None", res |-> "None"]
            ELSE IF order[i] \in present
            THEN [data |-> <<base, order[i]>>, res |-> order[i]]
            ELSE loop(i + 1)
    IN  loop(1)

Resolutions == {"tiny", "medium", "full", "auto"}

ResolutionBases == {"world", "characters"}

InitResolution ==
    /\ AtRest
    /\ pure \in [op : {"arguments"}, base : ResolutionBases,
                 resolution : Resolutions, present : SUBSET Tiers,
                 result : {[data |-> "None", res |-> "None"]}]

select_resolution_artifact_call ==
    /\ pure.op = "arguments"
    /\ pure' = [pure EXCEPT
                   !.op = "select_resolution_artifact",
                   !.result = select_resolution_artifact(
                                  pure.base, pure.resolution, pure.present)]
    /\ UNCHANGED pipeline

NextResolution == select_resolution_artifact_call

SpecResolution == InitResolution /\ [][NextResolution]_vars

(***************************************************************************)
(* build_context.py: the files read during assembly and build.sources.     *)
(* files is the set of optional files that exist, world and characters the *)
(* sets of tiers whose file exists under artifacts/world and               *)
(* artifacts/characters.                                                   *)
(***************************************************************************)
OptionalFiles ==
    {"plot_intent", "style_profile", "plot_spine", "scenes_index",
     "continuity_locks", "continuity_facts", "character_state", "prior_scene"}

CharacterTierSets == {{}, {"tiny"}, {"medium", "full"}}

\* A file read: the key build_context reads it under and, for a tiered
\* artifact, the tier of the file.
Read(key, tier) == [artifact |-> key, tier |-> tier]

read_optional_json(key, files) == IF key \in files THEN {Read(key, "")} ELSE {}

build_sources(resolution, required, optional) ==
    LET resolution_used == IF resolution \in Tiers THEN resolution ELSE "tiny"
    IN  [i \in DOMAIN required |->
            [artifact_id |-> required[i], resolution_used |-> resolution_used]]
        \o [i \in DOMAIN optional |->
               [artifact_id |-> optional[i].key,
                resolution_used |-> optional[i].resolution]]

\* build_context lines 63-153: what is read, optional_artifacts in insertion
\* order, the sources of the packet.
build_context_sources(resolution, files, world, characters) ==
    LET sel_world == select_resolution_artifact("world", resolution, world)
        sel_characters ==
            select_resolution_artifact("characters", resolution, characters)
        characters_resolution == sel_characters.res
        optional_artifacts ==
            (IF sel_world.res # "None"
             THEN <<[key |-> "world", resolution |-> sel_world.res]>> ELSE <<>>)
            \o (IF sel_characters.res # "None"
                THEN <<[key |-> "characters", resolution |-> sel_characters.res]>>
                ELSE <<>>)
            \o (IF "character_state" \in files
                THEN <<[key |-> "character_state",
                        resolution |-> IF characters_resolution # "None"
                                       THEN characters_resolution ELSE "tiny"]>>
                ELSE <<>>)
        required_sources ==
            <<"inputs/story_spec.json", "scene_plan_path", "scene_beats_path">>
            \o (IF "plot_intent" \in files
                THEN <<"inputs/plot_intent.json">> ELSE <<>>)
        sources ==
            build_sources(resolution, required_sources, optional_artifacts)
            \o (IF "style_profile" \in files
                THEN <<[artifact_id |-> "seeds/style_profile.json",
                        resolution_used |-> "tiny"]>>
                ELSE <<>>)
        read ==
            {Read("story_spec", ""), Read("scene_plan", ""), Read("scene_beats", "")}
            \cup read_optional_json("plot_intent", files)
            \cup read_optional_json("style_profile", files)
            \cup read_optional_json("plot_spine", files)
            \cup read_optional_json("scenes_index", files)
            \cup read_optional_json("continuity_locks", files)
            \cup read_optional_json("continuity_facts", files)
            \cup (IF sel_world.res # "None"
                  THEN {Read("world", sel_world.res)} ELSE {})
            \cup (IF sel_characters.res # "None"
                  THEN {Read("characters", sel_characters.res)} ELSE {})
            \cup read_optional_json("character_state", files)
            \cup read_optional_json("prior_scene", files)
    IN  [read |-> read, sources |-> sources]

InitSources ==
    /\ AtRest
    /\ pure \in [op : {"arguments"}, resolution : Resolutions,
                 files : SUBSET OptionalFiles, world : SUBSET Tiers,
                 characters : CharacterTierSets,
                 result : {[read |-> {}, sources |-> <<>>]}]

build_context_sources_call ==
    /\ pure.op = "arguments"
    /\ pure' = [pure EXCEPT
                   !.op = "build_context_sources",
                   !.result = build_context_sources(
                                  pure.resolution, pure.files, pure.world,
                                  pure.characters)]
    /\ UNCHANGED pipeline

NextSources == build_context_sources_call

SpecSources == InitSources /\ [][NextSources]_vars

(***************************************************************************)
(* build_context.py: ringA.style_rules.  A rule is <<kind, n>>: the five   *)
(* baseline rules, the tone line, "Theme: <n>" for a plot-intent theme,    *)
(* the n-th distinct rule derived from the style profile.                  *)
(***************************************************************************)
MaxThemes == 16
MaxDerived == 16
StyleRulesLimit == 20

\* n items, all different or the last one equal to the first.
IdList(n, repeat) == [i \in 1 .. n |-> IF repeat /\ i = n /\ n > 1 THEN 1 ELSE i]

ThemeLists == {IdList(n, repeat) : n \in 0 .. MaxThemes, repeat \in BOOLEAN}

\* No style profile file, or the rules build_style_rules_from_profile derives.
StyleProfileRules ==
    {[present |-> FALSE, derived |-> <<>>]}
    \cup {[present |-> TRUE, derived |-> IdList(n, repeat)] :
              n \in 0 .. MaxDerived, repeat \in BOOLEAN}

\* build_ringA lines 233-247: style_rules.
build_ringA(tone, themes) ==
    <<<<"tense", 0>>, <<"pov", 0>>, <<"concise", 0>>, <<"sensory", 0>>,
      <<"tonal", 0>>>>
    \o (IF tone THEN <<<<"tone", 0>>>> ELSE <<>>)
    \o [i \in DOMAIN themes |-> <<"theme", themes[i]>>]

build_style_rules_from_profile(profile) ==
    [i \in DOMAIN profile.derived |-> <<"derived", profile.derived[i]>>]

append_unique(base, extra) ==
    LET items == base \o extra
        RECURSIVE loop(_, _)
        loop(i, result) ==
            IF i > Len(items) THEN result
            ELSE loop(i + 1,
                      IF \E k \in DOMAIN result : items[i] = result[k]
                      THEN result ELSE Append(result, items[i]))
    IN  loop(1, <<>>)

cap_rules(rules, limit) ==
    IF Len(rules) <= limit THEN rules ELSE SubSeq(rules, 1, limit)

\* apply_style_profile lines 285-288: style_rules.
apply_style_profile(style_rules, profile) ==
    cap_rules(append_unique(style_rules, build_style_rules_from_profile(profile)),
              StyleRulesLimit)

InitRingA ==
    /\ AtRest
    /\ pure \in [op : {"arguments"}, tone : BOOLEAN, themes : ThemeLists,
                 profile : StyleProfileRules, style_rules : {<<>>}]

\* build_context line 133.
build_ringA_call ==
    /\ pure.op = "arguments"
    /\ pure' = [pure EXCEPT !.op = "build_ringA",
                            !.style_rules = build_ringA(pure.tone, pure.themes)]
    /\ UNCHANGED pipeline

\* build_context lines 134-135.
apply_style_profile_call ==
    /\ pure.op = "build_ringA"
    /\ pure.profile.present
    /\ pure' = [pure EXCEPT
                   !.op = "apply_style_profile",
                   !.style_rules = apply_style_profile(pure.style_rules,
                                                       pure.profile)]
    /\ UNCHANGED pipeline

NextRingA == build_ringA_call \/ apply_style_profile_call

SpecRingA == InitRingA /\ [][NextRingA]_vars

(***************************************************************************)
(* plan_spine.py and plan_scenes.py: the scene ids of a spine.  A reply of *)
(* the spine call is its text as json.loads and the schema see it, and the *)
(* acts it holds when it is JSON.  The schema fixes the shape {acts:       *)
(* [{act_no, chapters: [{chapter_no, scenes}]}]} with integer scenes; it   *)
(* compares no scenes array with another.                                  *)
(***************************************************************************)
MaxScenes == 2
MaxSceneId == 3

SpineChapters ==
    [chapter_no : {1, 2}, scenes : SeqsUpTo(1 .. MaxSceneId, MaxScenes)]

\* One act of one or two chapters, or two acts of one chapter each.
SpineActs ==
    {<<[act_no |-> 1, chapters |-> chapters]>> :
         chapters \in SeqsUpTo(SpineChapters, 2) \ {<<>>}}
    \cup {<<[act_no |-> 1, chapters |-> <<a>>], [act_no |-> 2, chapters |-> <<b>>]>> :
              a \in SpineChapters, b \in SpineChapters}

SpineReplies == [text : JsonReplies, acts : SpineActs]

\* plan_spine lines 50-59 on one reply: whether a spine file is written, and
\* the spine in it.
plan_spine_persisted(reply) ==
    IF spine_parse_and_validate(reply.text) = "None"
    THEN [written |-> FALSE, spine |-> [acts |-> <<>>]]
    ELSE [written |-> TRUE, spine |-> [acts |-> reply.acts]]

InitSpine ==
    /\ AtRest
    /\ pure \in [op : {"reply"}, reply : SpineReplies]

\* plan_spine lines 50-59.
plan_spine_persist_call ==
    /\ pure.op = "reply"
    /\ plan_spine_persisted(pure.reply).written
    /\ pure' = [op |-> "plan_spine", reply |-> pure.reply,
                spine |-> plan_spine_persisted(pure.reply).spine]
    /\ UNCHANGED pipeline

\* plan_scenes lines 54-57 on the spine file.
extract_scene_ids_call ==
    /\ pure.op = "plan_spine"
    /\ pure' = [op |-> "extract_scene_ids", reply |-> pure.reply,
                spine |-> pure.spine,
                ids |-> extract_scene_ids(pure.spine)]
    /\ UNCHANGED pipeline

NextSpine == plan_spine_persist_call \/ extract_scene_ids_call

SpecSpine == InitSpine /\ [][NextSpine]_vars

(***************************************************************************)
(* build_context.py: ringB.continuity_locks.  A string is the sequence of  *)
(* its characters, so that str.lower and the substring test `in` are       *)
(* computed as Python computes them.                                       *)
(***************************************************************************)
MaxStatement == 2
MaxLocks == 2

Chars == {"a", "A"}

Strings(n) == SeqsUpTo(Chars, n)

\* str.lower()
lower(text) == [i \in DOMAIN text |-> IF text[i] = "A" THEN "a" ELSE text[i]]

Severities == <<"must", "should", "critical">>

\* The locks artifact: a list of lock objects, the id of each its position.
\* The severities of a list run through Severities from any first one.
LockLists ==
    UNION {{[i \in 1 .. n |-> [id |-> i, statement |-> statements[i],
                               severity |-> Severities[((first + i) % 3) + 1]]] :
                statements \in [1 .. n -> Strings(MaxStatement)],
                first \in 1 .. 3} : n \in 0 .. MaxLocks}

\* scene_plan["cast"] and scene_plan["setting"]["location_id"]
CastNames == {<<>>, <<<<"A">>>>, <<<<"a", "A">>>>, <<<<"A">>, <<"a", "a">>>>}

LocationIds == {<<>>, <<"A", "a">>}

normalize_lock(lock) ==
    [id |-> lock.id,
     statement |-> lock.statement,
     severity |-> IF lock.severity \notin {"must", "should"}
                  THEN "should" ELSE lock.severity]

select_keywords(cast, location_id) ==
    {lower(cast[i]) : i \in DOMAIN cast}
    \cup (IF location_id # <<>> THEN {lower(location_id)} ELSE {})

\* Fault: the statement compared as written, not lower-cased.
select_relevant_locks_as_written(locks, cast, location_id) ==
    LET keywords == select_keywords(cast, location_id)
        RECURSIVE loop(_, _)
        loop(i, selected) ==
            IF i > Len(locks) THEN selected
            ELSE LET normalized == normalize_lock(locks[i])
                 IN  IF keywords = {}
                     THEN loop(i + 1, Append(selected, normalized))
                     ELSE IF \E keyword \in keywords :
                                 contains(normalized.statement, keyword)
                     THEN loop(i + 1, Append(selected, normalized))
                     ELSE loop(i + 1, selected)
    IN  loop(1, <<>>)

select_relevant_locks(locks, cast, location_id) ==
    LET keywords == select_keywords(cast, location_id)
        RECURSIVE loop(_, _)
        loop(i, selected) ==
            IF i > Len(locks) THEN selected
            ELSE LET normalized == normalize_lock(locks[i])
                 IN  IF keywords = {}
                     THEN loop(i + 1, Append(selected, normalized))
                     ELSE IF \E keyword \in keywords :
                                 contains(lower(normalized.statement), keyword)
                     THEN loop(i + 1, Append(selected, normalized))
                     ELSE loop(i + 1, selected)
    IN  loop(1, <<>>)

\* build_ringB lines 384-386.
build_ringB_locks(locks, cast_names, location_id) ==
    IF locks # <<>> THEN select_relevant_locks(locks, cast_names, location_id)
    ELSE <<>>

InitLocks ==
    /\ AtRest
    /\ pure \in [op : {"arguments"}, locks : LockLists, cast : CastNames,
                 location_id : LocationIds]

\* build_context line 136.
build_ringB_call ==
    /\ pure.op = "arguments"
    /\ pure' = [op |-> "build_ringB", locks |-> pure.locks, cast |-> pure.cast,
                location_id |-> pure.location_id,
                continuity_locks |->
                    build_ringB_locks(pure.locks, pure.cast, pure.location_id)]
    /\ UNCHANGED pipeline

NextLocks == build_ringB_call

SpecLocks == InitLocks /\ [][NextLocks]_vars

(***************************************************************************)
(* build_context.py: ringB.cast and ringC.relevant_facts.                  *)
(***************************************************************************)
MaxFacts == 2

\* The facts artifact: a list of string facts.
FactLists == SeqsUpTo(Strings(MaxStatement), MaxFacts)

\* The characters artifact: none, or a list with one character record.
CharacterLists == {<<>>, <<[id |-> <<"a">>, name |-> <<"a", "a">>]>>}

match_character(entry, name) == lower(name) \in {lower(entry.id), lower(entry.name)}

\* The matching entries in the order of the artifact; find_character returns
\* the first.
find_character(data, name) == SelectSeq(data, LAMBDA entry : match_character(entry, name))

\* build_cast: id and name of each cast entry.
build_cast(cast_names, characters_data) ==
    [i \in DOMAIN cast_names |->
        LET found == find_character(characters_data, cast_names[i])
        IN  IF found # <<>>
            THEN [id |-> Head(found).id, name |-> Head(found).name]
            ELSE [id |-> cast_names[i], name |-> cast_names[i]]]

select_relevant_facts(facts, cast, location) ==
    LET keywords == {lower(cast[i].name) : i \in DOMAIN cast}
                    \cup (IF location # <<>> THEN {lower(location)} ELSE {})
    IN  SelectSeq(facts, LAMBDA item : \E keyword \in keywords : contains(lower(item), keyword))

\* build_ringC lines 416-418.
build_ringC_facts(facts, cast, location) ==
    IF facts # <<>> THEN select_relevant_facts(facts, cast, location) ELSE <<>>

InitFacts ==
    /\ AtRest
    /\ pure \in [op : {"arguments"}, facts : FactLists, cast_names : CastNames,
                 location_id : LocationIds, characters : CharacterLists]

\* build_context line 136: ringB.cast.
build_cast_call ==
    /\ pure.op = "arguments"
    /\ pure' = [op |-> "build_ringB", facts |-> pure.facts,
                cast_names |-> pure.cast_names, location_id |-> pure.location_id,
                characters |-> pure.characters,
                cast |-> build_cast(pure.cast_names, pure.characters)]
    /\ UNCHANGED pipeline

\* build_context lines 137-143: ringC.relevant_facts.
build_ringC_call ==
    /\ pure.op = "build_ringB"
    /\ pure' = [op |-> "build_ringC", facts |-> pure.facts,
                cast_names |-> pure.cast_names, location_id |-> pure.location_id,
                characters |-> pure.characters, cast |-> pure.cast,
                relevant_facts |->
                    build_ringC_facts(pure.facts, pure.cast, pure.location_id)]
    /\ UNCHANGED pipeline

NextFacts == build_cast_call \/ build_ringC_call

SpecFacts == InitFacts /\ [][NextFacts]_vars

(***************************************************************************)
(* llm.py: resolve_backend on its own.                                     *)
(***************************************************************************)
MaxPath == 4

\* Paths of STORYCODEX_BASE_URL: empty, or "/" and up to MaxPath - 1 more
\* characters.
BaseUrls ==
    {<<>>} \cup {<<"/">> \o rest : rest \in SeqsUpTo({"/", "v", "1", "x"}, MaxPath - 1)}

BackendSettings == {"openai", "ollama", "auto", "bogus"}

InitBackend ==
    /\ AtRest
    /\ pure \in [op : {"arguments"}, base : BaseUrls, setting : BackendSettings,
                 outcome : ProbeOutcomes]

\* llm.chat line 96.
resolve_backend_call ==
    /\ pure.op = "arguments"
    /\ pure' = [op |-> "resolve_backend", base |-> pure.base,
                setting |-> pure.setting, outcome |-> pure.outcome,
                result |-> resolve_backend(pure.base, pure.setting, pure.outcome)]
    /\ UNCHANGED pipeline

NextBackend == resolve_backend_call

SpecBackend == InitBackend /\ [][NextBackend]_vars

(***************************************************************************)
(* build_context.py: ringC.prior_scene_summary, from the prose files of    *)
(* the prior scene to the rings of the packet.                             *)
(***************************************************************************)
\* What the summary call can return.
SummaryReplies == SummaryTexts \cup {"", "N/A"}

\* The prose files of scene 1 that build_context can find.
SummaryTrees ==
    {[Tree(4, FALSE) EXCEPT ![final_path(1)] = final, ![draft_path(1)] = draft] :
         final \in {Absent, File("old", "final")},
         draft \in {Absent, File("old", "draft")}}

build_ringC(prior_scene_summary) ==
    [prior_scene_summary |-> prior_scene_summary, open_threads |-> <<>>,
     relevant_facts |-> <<>>, glossary |-> <<>>]

InitSummary ==
    /\ fs \in SummaryTrees
    /\ pc = "idle"
    /\ inv = NoInv
    /\ prev = NoPrev
    /\ ninv = 0
    /\ err = NoErr
    /\ callLog = <<>>
    /\ replies = <<>>
    /\ payload = "None"
    /\ payload2 = "None"
    /\ backend_used = ""
    /\ written = <<>>
    /\ validated = {}
    /\ fs0 = fs
    /\ pure \in [op : {"arguments"}, scene_id : SceneIds, include : Includes]

\* build_context lines 126-131; summarized: the files given to
\* summarize_prior_scene, in order.
summarize_prior_scene_call ==
    /\ pure.op = "arguments"
    /\ LET prior_scene_path == prior_scene_text_path(pure.scene_id)
           step(op, summarized, summary_text, prior_scene_summary) ==
               pure' = [op |-> op, scene_id |-> pure.scene_id,
                        include |-> pure.include, summarized |-> summarized,
                        summary_text |-> summary_text,
                        prior_scene_summary |-> prior_scene_summary]
       IN  IF prior_scene_path = NoPath
           THEN step("summary", <<>>, "", "N/A")
           ELSE \E summary_text \in chat(SummaryReplies) :
                    IF Raised(summary_text)
                    THEN step("raised", <<prior_scene_path>>, "", "N/A")
                    ELSE step("summary", <<prior_scene_path>>, summary_text,
                              summary_text)
    /\ UNCHANGED pipeline

\* build_context lines 133-141: the rings, then apply_include.
build_context_rings_call ==
    /\ pure.op = "summary"
    /\ LET ringC == build_ringC(pure.prior_scene_summary)
           rings == apply_include(pure.include, empty_ringA, empty_ringB, ringC)
       IN  pure' = [op |-> "build_context", scene_id |-> pure.scene_id,
                    include |-> pure.include, summarized |-> pure.summarized,
                    summary_text |-> pure.summary_text,
                    prior_scene_summary |-> pure.prior_scene_summary,
                    ringC |-> rings[3]]
    /\ UNCHANGED pipeline

NextSummary == summarize_prior_scene_call \/ build_context_rings_call

SpecSummary == InitSummary /\ [][NextSummary]_vars

(***************************************************************************)
(* cli.py and seed_apply.py: the seed apply command.  Its four output      *)
(* files are old (there before the command), new (written by it) or absent.*)
(***************************************************************************)
SeedOutputs == <<"plot_intent", "story_spec", "manifest", "seed_report">>

SeedFiles == [Range(SeedOutputs) -> {"absent", "old"}]

\* Fault: only the first output path is looked at.
ensure_writable_first(paths, force, files) ==
    IF files[paths[1]] # "absent" /\ ~force THEN "FileExistsError" ELSE "None"

\* ensure_writable: the exception raised, "None" when it returns.
ensure_writable(paths, force, files) ==
    IF \E i \in DOMAIN paths : files[paths[i]] # "absent" /\ ~force
    THEN "FileExistsError"
    ELSE "None"

\* apply_seeds: the exception raised, "None" when it returns a result, and
\* whether merge was called.
apply_seeds(base_exists, plot_valid) ==
    IF ~base_exists THEN [raised |-> "FileNotFoundError", merged |-> FALSE]
    ELSE IF ~plot_valid THEN [raised |-> "ValueError", merged |-> TRUE]
    ELSE [raised |-> "None", merged |-> TRUE]

write_outputs(files) == [path \in DOMAIN files |-> "new"]

InitSeed ==
    /\ AtRest
    /\ pure \in [op : {"arguments"}, force : BOOLEAN, base_exists : BOOLEAN,
                 plot_valid : BOOLEAN, before : SeedFiles, files : SeedFiles,
                 merged : {FALSE}]
    /\ pure.files = pure.before

\* seed_apply line 97.
ensure_writable_call ==
    /\ pure.op = "arguments"
    /\ LET raised == ensure_writable(SeedOutputs, pure.force, pure.files)
       IN  pure' = [pure EXCEPT !.op = IF raised = "None" THEN "writable" ELSE raised]
    /\ UNCHANGED pipeline

\* seed_apply line 98.
apply_seeds_call ==
    /\ pure.op = "writable"
    /\ LET result == apply_seeds(pure.base_exists, pure.plot_valid)
       IN  pure' = [pure EXCEPT
                       !.op = IF result.raised = "None" THEN "result"
                              ELSE result.raised,
                       !.merged = result.merged]
    /\ UNCHANGED pipeline

\* seed_apply line 99.
write_outputs_call ==
    /\ pure.op = "result"
    /\ pure' = [pure EXCEPT !.op = "applied", !.files = write_outputs(pure.files)]
    /\ UNCHANGED pipeline

NextSeed == ensure_writable_call \/ apply_seeds_call \/ write_outputs_call

SpecSeed == InitSeed /\ [][NextSeed]_vars

(***************************************************************************)
(* plan_beats.py run by two processes at once on the same scene, without   *)
(* force, the story spec and the scene plan in place.  The processes share *)
(* the beats file and its metadata file and nothing else; a file is the    *)
(* text written and the process that wrote it (0: there before).           *)
(***************************************************************************)
Procs == {1, 2}

NoFile == [src |-> "absent", by |-> 0]

\* One process: position, calls issued, value to persist, error raised.
Proc(at, calls, beats, raised) ==
    [pc |-> at, calls |-> calls, beats |-> beats, raised |-> raised]

InitRace ==
    /\ AtRest
    /\ \E before \in {NoFile, [src |-> "old", by |-> 0]} :
           pure = [op |-> "plan_beats",
                   procs |-> [p \in Procs |-> Proc("start", <<>>, "None", "")],
                   beats_file |-> before, meta_file |-> before,
                   before |-> before, writes |-> <<>>]

Move(p, proc) == pure' = [pure EXCEPT !.procs[p] = proc]

\* plan_beats lines 36-70 in process p: the cache check.
concurrent_begin(p) ==
    /\ pure.procs[p].pc = "start"
    /\ IF pure.beats_file # NoFile
       THEN Move(p, Proc("skipped", <<>>, "None", ""))
       ELSE Move(p, Proc("beats_draft", <<>>, "None", ""))
    /\ UNCHANGED pipeline

\* plan_beats lines 72-75 in process p: the draft call and its validation.
concurrent_draft(p) ==
    /\ pure.procs[p].pc = "beats_draft"
    /\ \E content \in chat(BeatsReplies) :
           LET calls == Append(pure.procs[p].calls, "draft")
           IN  IF Raised(content)
               THEN Move(p, Proc("failed", calls, "None", "transport"))
               ELSE LET r == beats_parse_and_validate(content)
                    IN  IF r.errors # <<>>
                        THEN Move(p, Proc("beats_repair", calls, "None", ""))
                        ELSE Move(p, Proc("beats_write", calls, r.payload, ""))
    /\ UNCHANGED pipeline

\* plan_beats lines 76-80 in process p: the repair call and its validation.
concurrent_repair(p) ==
    /\ pure.procs[p].pc = "beats_repair"
    /\ \E repaired \in chat(BeatsReplies) :
           LET calls == Append(pure.procs[p].calls, "repair")
           IN  IF Raised(repaired)
               THEN Move(p, Proc("failed", calls, "None", "transport"))
               ELSE LET r == beats_parse_and_validate(repaired)
                    IN  IF r.errors # <<>>
                        THEN Move(p, Proc("failed", calls, "None", "terminal"))
                        ELSE Move(p, Proc("beats_write", calls, r.payload, ""))
    /\ UNCHANGED pipeline

\* Fault: the beats file created only if it is not there.
concurrent_write_exclusive(p) ==
    /\ pure.procs[p].pc = "beats_write"
    /\ IF pure.beats_file # NoFile
       THEN Move(p, [pure.procs[p] EXCEPT !.pc = "failed", !.raised = "FileExistsError"])
       ELSE pure' = [pure EXCEPT
                        !.procs[p].pc = "beats_meta",
                        !.beats_file = [src |-> pure.procs[p].beats, by |-> p],
                        !.writes = Append(pure.writes, p)]
    /\ UNCHANGED pipeline

\* plan_beats lines 82-83 in process p.
concurrent_write(p) ==
    /\ pure.procs[p].pc = "beats_write"
    /\ pure' = [pure EXCEPT
                   !.procs[p].pc = "beats_meta",
                   !.beats_file = [src |-> pure.procs[p].beats, by |-> p],
                   !.writes = Append(pure.writes, p)]
    /\ UNCHANGED pipeline

\* plan_beats lines 85-102 in process p.
concurrent_meta(p) ==
    /\ pure.procs[p].pc = "beats_meta"
    /\ pure' = [pure EXCEPT
                   !.procs[p].pc = "ok",
                   !.meta_file = [src |-> "meta", by |-> p]]
    /\ UNCHANGED pipeline

NextRace ==
    \E p \in Procs :
        \/ concurrent_begin(p)
        \/ concurrent_draft(p)
        \/ concurrent_repair(p)
        \/ concurrent_write(p)
        \/ concurrent_meta(p)

SpecRace == InitRace /\ [][NextRace]_vars

(***************************************************************************)
(* The stage functions on artifact trees from which a file that a later    *)
(* stage was made from has been removed: the story spec, the spine, or a   *)
(* context packet and a scene plan.                                        *)
(***************************************************************************)
Without(tree, paths) == [p \in Paths |-> IF p \in paths THEN Absent ELSE tree[p]]

CacheTrees ==
    {Tree(7, FALSE),
     Without(Tree(7, FALSE), {inputs_spec_path}),
     Without(Tree(7, FALSE), {plot_spine_path}),
     Without(Tree(7, FALSE), {scene_context_path(1), scene_plan_path(2)})}

InitCache ==
    /\ fs \in CacheTrees
    /\ pc = "idle"
    /\ inv = NoInv
    /\ prev = NoPrev
    /\ ninv = 0
    /\ err = NoErr
    /\ callLog = <<>>
    /\ replies = <<>>
    /\ payload = "None"
    /\ payload2 = "None"
    /\ backend_used = ""
    /\ written = <<>>
    /\ validated = {}
    /\ fs0 = fs
    /\ pure = NoPure

SpecCache == InitCache /\ [][Next]_vars

(***************************************************************************)
(* Properties of the stage functions.                                      *)
(***************************************************************************)
\* C1: in plan_spine, plan_beats, plan_scenes, build_context and
\* check_continuity every artifact file the invocation has written holds a
\* payload that the stage's validation accepted during the same invocation,
\* and an invocation that ended in the terminal generation failure has
\* written no file at all.
C1_WrittenArtifactsValidated ==
    inv.stage \in {"plan_spine", "plan_beats", "plan_scenes", "build_context",
                   "check_continuity"} =>
        /\ \A i \in DOMAIN written :
               written[i][1] \in {"spine", "scenes_index", "plan", "beats",
                                  "context", "report", "patch"}
                   => fs[written[i]] \in validated
        /\ (pc = "failed" /\ err.kind \in {"terminal", "not_json"})
               => written = <<>> /\ fs = fs0

\* plan_scenes has written the index and the plans of a repaired reply.
C1_Witness ==
    /\ pc = "ok"
    /\ inv.stage = "plan_scenes"
    /\ callLog = <<"draft", "repair">>
    /\ Len(written) >= 3
    /\ fs[scenes_index_path] \in validated

\* C2: in plan_spine, plan_beats and plan_scenes no invocation issues more
\* than two backend calls, and when the first reply is no JSON and the second
\* parses but fails validation the invocation has raised the terminal
\* generation failure after exactly the draft call and one repair call,
\* having written nothing.
C2_TwoCallsThenTerminal ==
    inv.stage \in {"plan_spine", "plan_beats", "plan_scenes"} =>
        LET unparseable(t) ==
                ~Raised(t) /\ json_loads(extract_llm_content(t)) = "JSONDecodeError"
            invalid(t) ==
                /\ ~Raised(t)
                /\ ~unparseable(t)
                /\ CASE inv.stage = "plan_spine" ->
                          spine_parse_and_validate(t) = "None"
                     [] inv.stage = "plan_beats" ->
                          beats_parse_and_validate(t).errors # <<>>
                     [] inv.stage = "plan_scenes" ->
                          ~scenes_validate(t).ok
        IN  /\ Len(callLog) <= 2
            /\ (Len(replies) = 2 /\ unparseable(replies[1]) /\ invalid(replies[2]))
                   => /\ pc = "failed"
                      /\ err.kind = "terminal"
                      /\ callLog = <<"draft", "repair">>
                      /\ written = <<>>

\* plan_spine got a reply that is no JSON, then one that fails its schema.
C2_Witness ==
    /\ inv.stage = "plan_spine"
    /\ replies = <<"garbage", "bad">>
    /\ pc = "failed"
    /\ err.kind = "terminal"

\* C3: in every stage of the generate, validate, repair protocol a reply that
\* is no JSON counts as a validation failure: after a draft, report or patch
\* call the single repair call follows it, and after a repair call the
\* invocation fails; it is never a fatal error that skips the repair call.
C3_UnparseableReplyIsRepaired ==
    pc \in {"ok", "failed"} =>
        \A i \in DOMAIN replies :
            replies[i] = "garbage" =>
                IF callLog[i] = "repair"
                THEN pc = "failed" /\ i = Len(callLog)
                ELSE i < Len(callLog) /\ callLog[i + 1] = "repair"

\* C4: for every stage, when the invocation before this one was the same
\* stage with the same arguments and succeeded, and this one has no force
\* flag, this one returns at the cache check: no backend call, no file
\* written, the artifact tree as it found it.
C4_SecondInvocationSkips ==
    ( /\ prev.result = "ok"
      /\ prev.stage = inv.stage
      /\ prev.scene = inv.scene
      /\ prev.chapter = inv.chapter
      /\ prev.input = inv.input
      /\ ~inv.force )
        => /\ pc = "skipped"
           /\ callLog = <<>>
           /\ written = <<>>
           /\ fs = fs0

\* plan_scenes for chapter 1, run again after it succeeded.
C4_Witness ==
    /\ prev.result = "ok"
    /\ prev.stage = "plan_scenes"
    /\ inv.stage = "plan_scenes"
    /\ prev.chapter = 1
    /\ inv.chapter = 1
    /\ ~inv.force
    /\ pc = "skipped"

\* C5: when an invocation of any of the six stages has ended, normally or
\* with a fatal error, it has written both an artifact and the metadata
\* record or neither of them.
C5_ArtifactAndMetadataTogether ==
    pc \in {"ok", "failed", "skipped"} =>
        LET kinds == {written[i][1] : i \in DOMAIN written}
            artifact ==
                kinds \cap {"spine", "scenes_index", "plan", "beats", "context",
                            "draft", "report", "patch"} # {}
            metadata ==
                kinds \cap {"spine_meta", "scenes_meta", "beats_meta",
                            "context_meta", "draft_meta", "continuity_meta"} # {}
        IN  artifact <=> metadata

\* C6: after an invocation was interrupted, the artifact its cache check
\* looks for does not exist (unless it existed before the invocation), so
\* that the next invocation without force cannot return at the cache check.
C6_CrashLeavesNoArtifact ==
    pc = "crashed" =>
        LET cached ==
                CASE inv.stage = "plan_spine" -> {plot_spine_path}
                  [] inv.stage = "plan_scenes" -> {scenes_index_path}
                  [] inv.stage = "plan_beats" -> {scene_beats_path(inv.scene)}
                  [] inv.stage = "build_context" -> {scene_context_path(inv.scene)}
                  [] inv.stage = "write_scene" -> {draft_path(inv.scene)}
                  [] inv.stage = "check_continuity" ->
                       {report_path(inv.scene), patch_path(inv.scene)}
        IN  \A p \in cached : fs0[p] = Absent => fs[p] = Absent

\* C7: when a stage is not cache-skipped and a required upstream artifact is
\* absent, the invocation fails with the missing-prerequisite error, which
\* names an absent required path and the stage that produces it, and it has
\* issued no backend call and written no file.
C7_MissingUpstreamNamed ==
    LET required ==
            CASE inv.stage = "plan_spine" -> {inputs_spec_path}
              [] inv.stage = "plan_scenes" -> {inputs_spec_path, plot_spine_path}
              [] inv.stage = "plan_beats" ->
                   {inputs_spec_path, scene_plan_path(inv.scene)}
              [] inv.stage = "build_context" ->
                   {inputs_spec_path, scene_plan_path(inv.scene),
                    scene_beats_path(inv.scene)}
              [] inv.stage = "write_scene" -> {scene_context_path(inv.scene)}
              [] inv.stage = "check_continuity" ->
                   {scene_context_path(inv.scene),
                    prose_path(inv.scene, inv.input)}
              [] OTHER -> {}
    IN  (pc \notin {"idle", "skipped"} /\ \E p \in required : fs0[p] = Absent)
            => /\ pc = "failed"
               /\ err.kind = "missing"
               /\ err.path \in required
               /\ fs0[err.path] = Absent
               /\ err.producer # ""
               /\ callLog = <<>>
               /\ written = <<>>
               /\ fs = fs0

\* C8: build_context issues no draft call; it issues a repair call only when
\* the assembled packet failed validation, and then one; what it persists
\* and returns is a packet that validated; for scene 1 with an assembled
\* packet that validates it issues no backend call at all.
C8_ContextRepairedOnlyIfInvalid ==
    inv.stage = "build_context" =>
        LET assembled_ok == File("assembled", "context") \in validated
            repairs == {i \in DOMAIN callLog : callLog[i] = "repair"}
        IN  /\ "draft" \notin Range(callLog)
            /\ Cardinality(repairs) <= 1
            /\ repairs # {} => ~assembled_ok
            /\ (pc \in {"context_write", "context_meta", "ok"} /\ ~assembled_ok)
                   => repairs # {}
            /\ scene_context_path(inv.scene) \in Range(written)
                   => fs[scene_context_path(inv.scene)] \in validated
            /\ pc = "ok" =>
                   /\ scene_context_path(inv.scene) \in Range(written)
                   /\ fs[scene_context_path(inv.scene)] = File(payload, "context")
            /\ (inv.scene = 1 /\ assembled_ok) => callLog = <<>>

\* build_context for scene 1 persisted the packet the one repair call gave.
C8_Witness ==
    /\ inv.stage = "build_context"
    /\ inv.scene = 1
    /\ pc = "ok"
    /\ callLog = <<"repair">>
    /\ fs[scene_context_path(1)] = File("good", "context")

(***************************************************************************)
(* Properties of apply_include and merge.                                  *)
(***************************************************************************)
\* C9: apply_include returns the selected ring unmodified and the canonical
\* empty form of the two others (all three rings for "all"): an empty ring A
\* has premise "", pov "first", tense "past" and empty lists, an empty ring B
\* has empty goal, setting, cast, beats and locks, an empty ring C has the
\* summary "N/A" and empty lists.
C9_ApplyIncludeSelectsRing ==
    pure.op = "apply_include" =>
        LET empty_A ==
                [premise |-> "", tone |-> <<>>, pov |-> "first",
                 tense |-> "past", global_constraints |-> <<>>,
                 style_rules |-> <<>>]
            empty_B ==
                [scene_goal |-> "",
                 setting |-> [location |-> [id |-> "", name |-> "",
                                            constraints |-> <<>>],
                              time |-> "", mood_tags |-> <<>>],
                 cast |-> <<>>, beats |-> <<>>, continuity_locks |-> <<>>]
            empty_C ==
                [prior_scene_summary |-> "N/A", open_threads |-> <<>>,
                 relevant_facts |-> <<>>, glossary |-> <<>>]
        IN  CASE pure.include = "ringA" ->
                   pure.result = <<pure.ringA, empty_B, empty_C>>
              [] pure.include = "ringB" ->
                   pure.result = <<empty_A, pure.ringB, empty_C>>
              [] pure.include = "ringC" ->
                   pure.result = <<empty_A, empty_B, pure.ringC>>
              [] pure.include = "all" ->
                   pure.result = <<pure.ringA, pure.ringB, pure.ringC>>
              [] OTHER -> TRUE

\* apply_include kept a populated ring A and emptied populated rings B and C.
C9_Witness ==
    /\ pure.op = "apply_include"
    /\ pure.include = "ringA"
    /\ pure.ringA.premise = "A heist"
    /\ pure.ringB.scene_goal # ""
    /\ pure.ringC.prior_scene_summary = "They met."
    /\ pure.result[1] = pure.ringA
    /\ pure.result[2].scene_goal = ""
    /\ pure.result[3].prior_scene_summary = "N/A"

\* The lists merge(x, x) passes to merge_lists (x itself, or a list under
\* dict keys only) hold no two equal items.
RECURSIVE MergedListsDistinct(_)
MergedListsDistinct(x) ==
    CASE x.t = "list" ->
           \A i, j \in DOMAIN x.v : x.v[i] = x.v[j] => i = j
      [] x.t = "dict" ->
           \A key \in DOMAIN x.v : MergedListsDistinct(x.v[key])
      [] OTHER -> TRUE

\* C10 as stated: merge(x, x) = x for every JSON-like tree x, also for trees
\* that contain lists with repeated items.
C10_MergeIdempotent ==
    (pure.op = "merge" /\ pure.base = pure.override)
        => pure.result = pure.base

\* C10 amended: merge(x, x) = x exactly for the trees x in which no list
\* that merge reaches (x itself or a list under dict keys only) holds two
\* equal items; lists inside list items are not merged and may repeat.
C10_MergeIdempotentWithoutRepeats ==
    (pure.op = "merge" /\ pure.base = pure.override)
        => (pure.result = pure.base <=> MergedListsDistinct(pure.base))

\* merge(x, x) for a dict with a two-item list and a list item that repeats
\* inside itself.
C10_Witness ==
    /\ pure.op = "merge"
    /\ pure.base = pure.override
    /\ pure.base = D([key \in {"a", "b"} |->
                         IF key = "a" THEN L(<<S(1), S(2)>>) ELSE S(2)])
    /\ pure.result = pure.base

\* The three rules of merging: result is what they give for base and override.
RECURSIVE MergeRules(_, _, _)
MergeRules(base, override, result) ==
    IF base.t = "dict" /\ override.t = "dict"
    THEN /\ result.t = "dict"
         /\ DOMAIN result.v = DOMAIN base.v \cup DOMAIN override.v
         /\ \A key \in DOMAIN result.v :
                IF key \in DOMAIN base.v /\ key \in DOMAIN override.v
                THEN MergeRules(base.v[key], override.v[key], result.v[key])
                ELSE IF key \in DOMAIN base.v
                THEN result.v[key] = base.v[key]
                ELSE result.v[key] = override.v[key]
    ELSE IF base.t = "list" /\ override.t = "list"
    THEN LET all == base.v \o override.v
             first(x) == CHOOSE i \in DOMAIN all :
                             all[i] = x /\ \A k \in 1 .. i - 1 : all[k] # x
         IN  /\ result.t = "list"
             /\ \A i, j \in DOMAIN result.v : result.v[i] = result.v[j] => i = j
             /\ {result.v[i] : i \in DOMAIN result.v} = {all[i] : i \in DOMAIN all}
             /\ \A i, j \in DOMAIN result.v :
                    i < j => first(result.v[i]) < first(result.v[j])
    ELSE result = override

\* C11: for all trees base and override, merge(base, override) is the result
\* of the three rules: two dicts merge key by key (shared keys merged, the
\* others copied), two lists give base's items then override's items not
\* yet present, without duplicates and first occurrences in order, anything
\* else gives override.
C11_MergeFollowsRules ==
    pure.op = "merge" => MergeRules(pure.base, pure.override, pure.result)

\* merge of two dicts that share a key holding lists with a common item.
C11_Witness ==
    /\ pure.op = "merge"
    /\ pure.base = D([key \in {"a"} |-> L(<<S(1)>>)])
    /\ pure.override = D([key \in {"a", "b"} |->
                             IF key = "a" THEN L(<<S(2), S(1)>>) ELSE S(1)])
    /\ pure.result = D([key \in {"a", "b"} |->
                           IF key = "a" THEN L(<<S(1), S(2)>>) ELSE S(1)])

\* C12: select_resolution_artifact uses the requested tier when its file
\* exists, otherwise the first existing of the two others in the fallback
\* order of the request (tiny: medium, full; medium: tiny, full; full:
\* medium, tiny); it gives nothing exactly when no tier file exists; a
\* resolution that is no tier tries tiny, medium, full.
C12_RequestedTierThenFallback ==
    pure.op = "select_resolution_artifact" =>
        LET used == pure.result.res
            wanted == pure.resolution
            present == pure.present
            fallback ==
                CASE wanted = "tiny" -> <<"medium", "full">>
                  [] wanted = "medium" -> <<"tiny", "full">>
                  [] wanted = "full" -> <<"medium", "tiny">>
                  [] OTHER -> <<"medium", "full">>
            first == IF wanted \in Tiers THEN wanted ELSE "tiny"
        IN  /\ (used = "None") <=> (present = {})
            /\ (pure.result.data = "None") <=> (present = {})
            /\ first \in present => used = first
            /\ (first \notin present /\ fallback[1] \in present)
                   => used = fallback[1]
            /\ (first \notin present /\ fallback[1] \notin present
                    /\ fallback[2] \in present)
                   => used = fallback[2]
            /\ used # "None" => pure.result.data = <<pure.base, used>>

\* medium was requested, only tiny and full exist: tiny is used.
C12_Witness ==
    /\ pure.op = "select_resolution_artifact"
    /\ pure.resolution = "medium"
    /\ pure.present = {"tiny", "full"}
    /\ pure.result.res = "tiny"

\* C13: in a packet build_context assembled, each file read during assembly
\* (story spec, scene plan, scene beats and each optional artifact present)
\* has exactly one entry in build.sources, which gives its artifact
\* identifier and, for a tiered artifact, the tier of the file read.
C13_EveryFileReadIsASource ==
    pure.op = "build_context_sources" =>
        LET identifier(key) ==
                CASE key = "story_spec" -> "inputs/story_spec.json"
                  [] key = "scene_plan" -> "scene_plan_path"
                  [] key = "scene_beats" -> "scene_beats_path"
                  [] key = "plot_intent" -> "inputs/plot_intent.json"
                  [] key = "style_profile" -> "seeds/style_profile.json"
                  [] OTHER -> key
            sources == pure.result.sources
        IN  \A r \in pure.result.read :
                /\ Cardinality({i \in DOMAIN sources :
                                   sources[i].artifact_id = identifier(r.artifact)}) = 1
                /\ r.tier # "" =>
                       \E i \in DOMAIN sources :
                           /\ sources[i].artifact_id = identifier(r.artifact)
                           /\ sources[i].resolution_used = r.tier

\* Ring A is as build_context puts it into the packet.
RingAAssembled ==
    \/ pure.op = "apply_style_profile"
    \/ pure.op = "build_ringA" /\ ~pure.profile.present

\* C14: in every packet assembled by build_context, with or without a style
\* profile and for any number of themes, ringA.style_rules has no duplicates
\* and at most 20 entries, and when more than 20 different rules were
\* produced it is the first 20 of them in append order.
C14_StyleRulesCappedAndDistinct ==
    RingAAssembled =>
        LET rules == pure.style_rules
            appended ==
                <<<<"tense", 0>>, <<"pov", 0>>, <<"concise", 0>>,
                  <<"sensory", 0>>, <<"tonal", 0>>>>
                \o (IF pure.tone THEN <<<<"tone", 0>>>> ELSE <<>>)
                \o [i \in DOMAIN pure.themes |-> <<"theme", pure.themes[i]>>]
                \o [i \in DOMAIN pure.profile.derived |->
                       <<"derived", pure.profile.derived[i]>>]
            firsts == {i \in DOMAIN appended :
                          \A k \in 1 .. i - 1 : appended[k] # appended[i]}
            \* the position in appended of the n-th different rule
            nth(n) == CHOOSE i \in firsts :
                          Cardinality({k \in firsts : k <= i}) = n
        IN  /\ \A i, j \in DOMAIN rules : rules[i] = rules[j] => i = j
            /\ Len(rules) <= 20
            /\ Cardinality(firsts) > 20 =>
                   /\ Len(rules) = 20
                   /\ \A n \in 1 .. 20 : rules[n] = appended[nth(n)]

\* C15: write_scene calls the backend for the draft, then only if the draft
\* failed validation once for the retry, then only if the retry failed too
\* once for the expansion: at most three calls, stopping at the first reply
\* that passes; it writes the prose and the metadata only if the last reply
\* passed, and fails without writing anything if the expand reply fails.
C15_WriteSceneEscalates ==
    (inv.stage = "write_scene" /\ pc # "crashed") =>
        LET passes(t) == ~Raised(t) /\ validate_draft(t, inv.target, BeatCount).ok
            n == Len(replies)
        IN  /\ Len(callLog) <= 3
            /\ callLog = SubSeq(<<"draft", "retry", "expand">>, 1, Len(callLog))
            /\ \A i \in 1 .. n - 1 : ~Raised(replies[i]) /\ ~passes(replies[i])
            /\ written # <<>> =>
                   /\ n > 0
                   /\ passes(replies[n])
                   /\ written[1] = draft_path(inv.scene)
                   /\ fs[draft_path(inv.scene)] = File(replies[n], "prose")
            /\ pc = "ok" =>
                   written = <<draft_path(inv.scene), draft_meta_path(inv.scene)>>
            /\ (n > 0 /\ passes(replies[n]))
                   => pc \in {"write_output", "write_meta", "ok"}
            /\ (n = 3 /\ ~Raised(replies[3]) /\ ~passes(replies[3]))
                   => /\ pc = "failed"
                      /\ err.kind = "validation"
                      /\ written = <<>>
                      /\ fs = fs0
            /\ (pc = "failed" /\ err.kind = "validation") => n = 3

\* The draft and the retry failed validation, the expansion passed and was
\* written with its metadata.
C15_Witness ==
    /\ inv.stage = "write_scene"
    /\ pc = "ok"
    /\ replies = <<"short", "flat", "fits">>
    /\ callLog = <<"draft", "retry", "expand">>
    /\ fs[draft_path(inv.scene)] = File("fits", "prose")

\* C16: a reply to the expand prompt of write_scene is accepted and written
\* only if its word count is within 0.7 and 1.3 times the target; an expand
\* reply outside that range makes the stage fail.
C16_ExpandWithinSevenToThirteenTenths ==
    ( /\ inv.stage = "write_scene"
      /\ pc # "crashed"
      /\ Len(callLog) = 3
      /\ ~Raised(replies[3]) ) =>
        LET words == draft_text(replies[3]).words
            within == 10 * words >= 7 * inv.target /\ 10 * words <= 13 * inv.target
        IN  ~within => pc = "failed" /\ written = <<>>

\* C17: check_continuity asks for the patch only after a report has passed
\* validation, with that report; report and patch get at most one repair
\* call each, four calls in all; the report file, the patch file and the
\* metadata are written only after both have passed validation, and a failed
\* invocation leaves no file behind.
C17_PatchAfterValidReport ==
    (inv.stage = "check_continuity" /\ pc # "crashed") =>
        LET orders == {<<"report", "patch">>,
                       <<"report", "repair", "patch">>,
                       <<"report", "patch", "repair">>,
                       <<"report", "repair", "patch", "repair">>}
            valid(t) == /\ ~Raised(t)
                        /\ json_loads(t) # "JSONDecodeError"
                        /\ iter_errors(json_loads(t)) = <<>>
        IN  /\ Len(callLog) <= 4
            /\ \E o \in orders :
                   Len(callLog) <= Len(o) /\ callLog = SubSeq(o, 1, Len(callLog))
            /\ \A k \in DOMAIN callLog :
                   callLog[k] = "patch" =>
                       /\ k > 1
                       /\ valid(replies[k - 1])
                       /\ payload = json_loads(replies[k - 1])
                       /\ File(payload, "report") \in validated
            /\ written # <<>> =>
                   /\ valid(replies[Len(replies)])
                   /\ File(payload, "report") \in validated
                   /\ File(payload2, "patch") \in validated
                   /\ Len(written) <= 3
                   /\ written = SubSeq(<<report_path(inv.scene),
                                         patch_path(inv.scene),
                                         continuity_meta_path(inv.scene)>>,
                                       1, Len(written))
                   /\ fs[report_path(inv.scene)] = File(payload, "report")
            /\ pc = "failed" => written = <<>> /\ fs = fs0

\* Report and patch were both repaired once, then all three files written.
C17_Witness ==
    /\ inv.stage = "check_continuity"
    /\ pc = "ok"
    /\ callLog = <<"report", "repair", "patch", "repair">>
    /\ replies = <<"bad", "good", "bad", "good">>
    /\ Len(written) = 3

\* C18: plan_scenes under a chapter scope writes plan files only for the
\* scenes the spine puts in that chapter and leaves the plan files of every
\* other chapter as they were; a reply with a plan for a scene outside the
\* chapter is not accepted.
C18_ChapterScopeWritesOwnPlans ==
    (inv.stage = "plan_scenes" /\ inv.chapter # 0) =>
        LET chapters == FlattenChapters(spine_json(fs0[plot_spine_path]).acts)
            in_chapter(id) ==
                \E i \in DOMAIN chapters :
                    /\ chapters[i].chapter_no = inv.chapter
                    /\ id \in Range(chapters[i].scenes)
            outside(t) ==
                /\ ~Raised(t)
                /\ json_loads(t) # "JSONDecodeError"
                /\ \E i \in DOMAIN scenes_json(t).plans :
                       ~in_chapter(scenes_json(t).plans[i].scene_id)
        IN  /\ \A i \in DOMAIN written :
                   written[i][1] = "plan" => in_chapter(written[i][2])
            /\ \A id \in SceneIds :
                   ~in_chapter(id) => fs[scene_plan_path(id)] = fs0[scene_plan_path(id)]
            /\ \A i \in DOMAIN replies :
                   outside(replies[i]) =>
                       /\ payload # replies[i]
                       /\ IF i = 1
                          THEN pc = "scenes_repair" \/ Len(callLog) = 2
                          ELSE pc = "failed" /\ err.kind = "terminal"

\* Under the scope of chapter 1 a reply with the plans of both chapters was
\* sent to repair and the repaired reply's one plan was written.
C18_Witness ==
    /\ inv.stage = "plan_scenes"
    /\ inv.chapter = 1
    /\ pc = "ok"
    /\ replies = <<"sc_all", "sc_ch1">>
    /\ scene_plan_path(1) \in Range(written)
    /\ fs0[scene_plan_path(2)] # Absent

C20_OnlyConsistentRepliesAccepted ==
    (inv.stage = "plan_scenes" /\ pc # "crashed") =>
        LET chapters == FlattenChapters(spine_json(fs0[plot_spine_path]).acts)
            all == UNION {Range(chapters[i].scenes) : i \in DOMAIN chapters}
            chapter_of(id) ==
                (CHOOSE i \in DOMAIN chapters : id \in Range(chapters[i].scenes))
            right_chapter(id, no) ==
                id \in all /\ chapters[chapter_of(id)].chapter_no = no
            consistent(t) ==
                LET index == scenes_json(t).scenes
                    plans == scenes_json(t).plans
                IN  /\ {index[i].scene_id : i \in DOMAIN index} = all
                    /\ \A i \in DOMAIN index :
                           /\ right_chapter(index[i].scene_id, index[i].chapter_no)
                           /\ index[i].plan_path = <<"plan", index[i].scene_id>>
                           /\ index[i].beats_path = <<"beats", index[i].scene_id>>
                    /\ \A i \in DOMAIN plans :
                           /\ right_chapter(plans[i].scene_id, plans[i].chapter_no)
                           /\ plans[i].beats_ref = <<"beats", plans[i].scene_id>>
            parsed(t) == ~Raised(t) /\ json_loads(t) # "JSONDecodeError"
        IN  /\ pc \in {"scenes_write_index", "scenes_write_plan", "scenes_meta", "ok"}
                   => consistent(payload)
            /\ scenes_index_path \in Range(written)
                   => consistent(fs[scenes_index_path].src)
            /\ \A i \in DOMAIN replies :
                   (parsed(replies[i]) /\ ~consistent(replies[i])) =>
                       IF i = 1
                       THEN \/ pc = "scenes_repair"
                            \/ Len(callLog) = 2 /\ callLog[2] = "repair"
                       ELSE pc = "failed" /\ err.kind = "terminal"

\* A reply with a wrong beats path and beats_ref was sent to repair, and the
\* repaired reply was written.
C20_Witness ==
    /\ inv.stage = "plan_scenes"
    /\ inv.chapter = 0
    /\ pc = "ok"
    /\ replies = <<"sc_badref", "sc_all">>
    /\ callLog = <<"draft", "repair">>
    /\ fs[scenes_index_path] = File("sc_all", "index")

\* C21: every spine plan_spine persists has scene ids that are unique over
\* all acts and chapters and are 1..N in order, so extract_scene_ids of
\* plan_scenes never finds a scene id under two chapters.
C21_SpineSceneIdsSequential ==
    pure.op \in {"plan_spine", "extract_scene_ids"} =>
        LET chapters == FlattenChapters(pure.spine.acts)
            RECURSIVE all(_)
            all(i) == IF i > Len(chapters) THEN <<>>
                      ELSE chapters[i].scenes \o all(i + 1)
        IN  /\ all(1) = [i \in 1 .. Len(all(1)) |-> i]
            /\ pure.op = "extract_scene_ids" =>
                   \A a, b \in DOMAIN pure.ids.scene_ids_by_chapter :
                       a # b =>
                           Range(pure.ids.scene_ids_by_chapter[a])
                               \cap Range(pure.ids.scene_ids_by_chapter[b]) = {}

\* C22: with K the lower-cased cast names of the scene plan plus the
\* location id when it is not empty, ringB.continuity_locks holds exactly the
\* locks whose statement contains a keyword of K whatever the case of its
\* letters, or every lock when K is empty, in the order of the locks
\* artifact, each with severity must or should: the lock's own when it is
\* one of the two, else should.
C22_LocksSelectedByKeyword ==
    pure.op = "build_ringB" =>
        LET same_letter(c, d) == c = d \/ {c, d} = {"a", "A"}
            occurs(word, text) ==
                \E before \in 0 .. Len(text) :
                    /\ before + Len(word) <= Len(text)
                    /\ \A j \in 1 .. Len(word) : same_letter(word[j], text[before + j])
            K == {pure.cast[i] : i \in DOMAIN pure.cast}
                 \cup (IF Len(pure.location_id) > 0 THEN {pure.location_id} ELSE {})
            included(lock) == K = {} \/ \E k \in K : occurs(k, lock.statement)
            result == pure.continuity_locks
        IN  /\ \A i \in DOMAIN pure.locks :
                   included(pure.locks[i]) <=> \E j \in DOMAIN result : result[j].id = i
            /\ \A j, k \in DOMAIN result : j < k => result[j].id < result[k].id
            /\ \A j \in DOMAIN result :
                   LET lock == pure.locks[result[j].id]
                   IN  /\ result[j].statement = lock.statement
                       /\ result[j].severity \in {"must", "should"}
                       /\ lock.severity \in {"must", "should"}
                              => result[j].severity = lock.severity
                       /\ lock.severity \notin {"must", "should"}
                              => result[j].severity = "should"

\* The second of two locks is selected by a keyword that differs from its
\* statement in case only, the first is not selected, and the selected one's
\* severity was replaced.
C22_Witness ==
    /\ pure.op = "build_ringB"
    /\ pure.cast = <<<<"a", "A">>>>
    /\ pure.location_id = <<>>
    /\ Len(pure.locks) = 2
    /\ pure.locks[1].statement = <<"a">>
    /\ pure.locks[2].statement = <<"A", "a">>
    /\ pure.locks[2].severity = "critical"
    /\ pure.continuity_locks = <<[id |-> 2, statement |-> <<"A", "a">>, severity |-> "should"]>>

\* C23: for a scene with at least one keyword (a cast name or a location
\* id), a fact is in ringC.relevant_facts exactly when a lock with the same
\* statement would be in ringB.continuity_locks, also when a cast name
\* resolves to a character record of another name.
C23_FactsFilteredLikeLocks ==
    (/\ pure.op = "build_ringC"
     /\ select_keywords(pure.cast_names, pure.location_id) # {}) =>
        \A i \in DOMAIN pure.facts :
            LET lock == [id |-> 1, statement |-> pure.facts[i], severity |-> "must"]
            IN  (\E j \in DOMAIN pure.relevant_facts :
                     pure.relevant_facts[j] = pure.facts[i])
                <=> build_ringB_locks(<<lock>>, pure.cast_names, pure.location_id) # <<>>

\* C24: resolve_backend uses the setting openai or ollama as it is, without
\* a probe; with auto and a base URL whose path has /v1 in it, it selects
\* openai without a probe; with auto otherwise it issues the one probe and
\* selects openai exactly when the probe returned status 200, ollama on
\* any other status and on a transport error; any other setting raises.
C24_ResolveBackend ==
    pure.op = "resolve_backend" =>
        LET has_v1 == \E i \in DOMAIN pure.base :
                          /\ i + 2 <= Len(pure.base)
                          /\ pure.base[i] = "/"
                          /\ pure.base[i + 1] = "v"
                          /\ pure.base[i + 2] = "1"
            result == pure.result
        IN  /\ pure.setting \in {"openai", "ollama"} =>
                   result.backend = pure.setting /\ ~result.probed
            /\ (pure.setting = "auto" /\ has_v1) =>
                   result.backend = "openai" /\ ~result.probed
            /\ (pure.setting = "auto" /\ ~has_v1) =>
                   /\ result.probed
                   /\ result.backend = (IF pure.outcome = "200" THEN "openai" ELSE "ollama")
            /\ pure.setting \notin {"openai", "ollama", "auto"} =>
                   result.backend = "ValueError" /\ ~result.probed

\* With auto and a base URL without /v1 in its path the probe got status
\* 404 and ollama was selected.
C24_Witness ==
    /\ pure.op = "resolve_backend"
    /\ pure.setting = "auto"
    /\ pure.base = <<"/", "x", "/", "v">>
    /\ pure.outcome = "404"
    /\ pure.result = [backend |-> "ollama", probed |-> TRUE]

\* C25: when a backend call of a stage fails with a transport, timeout or
\* HTTP error, the invocation ends with a fatal error, the failed call is its
\* last backend call, and it has written no artifact and no metadata file.
C25_TransportErrorEndsStage ==
    /\ \A i \in DOMAIN replies :
           replies[i] = "RuntimeError" =>
               /\ i = Len(replies)
               /\ pc \in {"failed", "crashed"}
               /\ pc = "failed" => err.kind = "transport"
               /\ written = <<>>
               /\ fs = fs0
    /\ (pc = "failed" /\ err.kind = "transport") =>
           /\ replies # <<>>
           /\ replies[Len(replies)] = "RuntimeError"
           /\ Len(callLog) = Len(replies)

\* The repair call of a forced re-run failed in transport after a draft
\* reply that was not valid.
C25_Witness ==
    /\ pc = "failed"
    /\ err.kind = "transport"
    /\ inv.stage = "plan_beats"
    /\ inv.force
    /\ callLog = <<"draft", "repair">>
    /\ replies = <<"bad", "RuntimeError">>
    /\ fs0[scene_beats_path(inv.scene)] # Absent
    /\ fs = fs0

C27_SeedApplyRefusesOverwrite ==
    pure.op # "arguments" =>
        LET blocked == ~pure.force /\ \E f \in DOMAIN pure.before : pure.before[f] = "old"
        IN  /\ blocked =>
                   /\ pure.op = "FileExistsError"
                   /\ ~pure.merged
                   /\ pure.files = pure.before
            /\ (~blocked /\ pure.base_exists /\ ~pure.plot_valid) =>
                   /\ pure.op \in {"writable", "ValueError"}
                   /\ pure.files = pure.before
            /\ pure.op = "ValueError" => ~pure.plot_valid /\ pure.files = pure.before

\* Only the seed report was there, force was not given: the command failed
\* before the merge and wrote nothing.
C27_Witness ==
    /\ pure.op = "FileExistsError"
    /\ ~pure.force
    /\ pure.base_exists
    /\ pure.plot_valid
    /\ pure.before = [f \in Range(SeedOutputs) |-> IF f = "seed_report" THEN "old" ELSE "absent"]
    /\ pure.files = pure.before
    /\ ~pure.merged

\* C28: two plan_beats invocations on one scene without force are not
\* coordinated: an invocation returns at the cache check only if the beats
\* file was there when it looked and then has issued no call and written
\* nothing, an invocation that passed the check fails only on its own
\* backend calls, and each one that reaches the writes overwrites the beats
\* file, so that the file holds what the later writer wrote.
C28_UncoordinatedInvocations ==
    pure.op = "plan_beats" =>
        /\ \A p \in Procs :
               LET proc == pure.procs[p]
                   wrote == \E i \in DOMAIN pure.writes : pure.writes[i] = p
               IN  /\ proc.pc = "skipped" => proc.calls = <<>> /\ ~wrote
                   /\ proc.pc = "failed" =>
                          /\ proc.raised \in {"transport", "terminal"}
                          /\ proc.calls # <<>>
                          /\ ~wrote
                   /\ proc.pc \in {"beats_meta", "ok"} => wrote /\ proc.calls # <<>>
                   /\ pure.before # NoFile => proc.pc \in {"start", "skipped"}
        /\ pure.writes # <<>> =>
               pure.beats_file.by = pure.writes[Len(pure.writes)]

\* Both invocations found no beats file, both called the backend, both
\* wrote the beats file and the metadata, the second over the first.
C28_Witness ==
    /\ pure.op = "plan_beats"
    /\ pure.before = NoFile
    /\ \A p \in Procs : pure.procs[p].pc = "ok" /\ pure.procs[p].calls # <<>>
    /\ pure.writes = <<1, 2>>
    /\ pure.beats_file.by = 2
    /\ pure.meta_file.by = 2

\* The target of the running invocation was there when it started: the
\* spine, the scenes index (with a chapter scope: the index and the plan of
\* every scene of the chapter), the beats, the context packet, the draft, the
\* report and the patch.
TargetExisted ==
    LET there(p) == fs0[p] # Absent
        chapters == FlattenChapters(spine_json(fs0[plot_spine_path]).acts)
    IN  CASE inv.stage = "plan_spine" -> there(plot_spine_path)
          [] inv.stage = "plan_scenes" ->
                 /\ there(scenes_index_path)
                 /\ inv.chapter # 0 =>
                        /\ \E i \in DOMAIN chapters : chapters[i].chapter_no = inv.chapter
                        /\ \A i \in DOMAIN chapters :
                               chapters[i].chapter_no = inv.chapter =>
                                   \A id \in Range(chapters[i].scenes) :
                                       there(scene_plan_path(id))
          [] inv.stage = "plan_beats" -> there(scene_beats_path(inv.scene))
          [] inv.stage = "build_context" -> there(scene_context_path(inv.scene))
          [] inv.stage = "write_scene" -> there(draft_path(inv.scene))
          [] inv.stage = "check_continuity" ->
                 there(report_path(inv.scene)) /\ there(patch_path(inv.scene))
          [] OTHER -> FALSE

\* C29 as stated: in every stage an invocation without force whose target
\* exists returns at the cache check, with no backend call and no error,
\* whatever upstream artifact is absent.
C29_CacheCheckFirst ==
    (TargetExisted /\ ~inv.force) =>
        /\ pc = "skipped"
        /\ callLog = <<>>
        /\ err = NoErr

\* C29 amended: that holds in every stage but plan_scenes under a chapter
\* scope, which looks for the story spec and the spine first and fails with
\* the missing-prerequisite error when one of them is absent, and returns at
\* its cache check only with both in place.
C29_CacheCheckFirstButChapterScope ==
    LET scoped == inv.stage = "plan_scenes" /\ inv.chapter # 0
        upstream == fs0[inputs_spec_path] # Absent /\ fs0[plot_spine_path] # Absent
    IN  /\ (TargetExisted /\ ~inv.force /\ ~scoped) =>
               /\ pc = "skipped"
               /\ callLog = <<>>
               /\ err = NoErr
               /\ fs = fs0
        /\ (scoped /\ ~upstream) =>
               /\ pc = "failed"
               /\ err.kind = "missing"
               /\ callLog = <<>>
               /\ fs = fs0
        /\ (scoped /\ TargetExisted /\ ~inv.force /\ upstream) =>
               /\ pc = "skipped"
               /\ callLog = <<>>
               /\ err = NoErr
               /\ fs = fs0

\* build_context for scene 2 returned at the cache check although the scene
\* plan it is made from was not there.
C29_Witness ==
    /\ inv.stage = "build_context"
    /\ inv.scene = 2
    /\ ~inv.force
    /\ fs0[scene_plan_path(2)] = Absent
    /\ fs0[scene_context_path(2)] # Absent
    /\ pc = "skipped"

\* C30: a forced re-run that fails leaves the files as they were when it
\* started: no failing invocation overwrites or removes the artifact or the
\* metadata that an earlier invocation wrote.
C30_FailedForcedRerunLeavesOutput ==
    (inv.force /\ TargetExisted /\ pc = "failed") => fs = fs0

====
